---- MODULE Spec2Model ----
(***************************************************************************)
(* A model of the threat-hunting tool "Hunt For RMMLs":                    *)
(*   - ZeroNetworksAPI (src/zero_networks/api.py): _handle_response,       *)
(*     _request with its retry loop, iter_paginated;                       *)
(*   - ZeroThreatHuntTools (src/zero_threat_hunt_tools/...): the filter    *)
(*     builder and the semantic query operations;                          *)
(*   - ZNHuntOps (src/zn_hunt_ops.py): the thread-pool hunt, the worker of *)
(*     one signature, the deduplication of a signature's activities and    *)
(*     the preparation of the report;                                      *)
(*   - ZeroNetworksAPI.__init__: the base URL of a new client.             *)
(* Each component has its own specification over the shared variables:     *)
(* SpecRequest, SpecPaginate, SpecFacade, SpecHunt, SpecDedup, SpecClient, *)
(* SpecWorker, SpecPrepare.                                                *)
(***************************************************************************)
EXTENDS Integers, Sequences, FiniteSets, TLC

(***************************************************************************)
(* Bounds of the model                                                     *)
(***************************************************************************)
\* largest max_retries a client is constructed with
MaxRetriesBound == 3
\* longest server script of pages
MaxPages == 3
\* longest value list passed to a query operation or to the filter builder
MaxValues == 2
\* most entries in the server's answer to GET /activities/network/filters
MaxFilters == 1
\* most signatures in the hunt's list
MaxSigs == 3
\* largest max_workers the orchestrator is configured with
MaxWorkersBound == 2
\* most activities in one of a hunt result's three lists
MaxActs == 2
\* most items on one scripted page of the pagination specification
MaxItems == 2
\* largest page size (limit) passed to iter_paginated directly
MaxLimit == 2
\* longest port list of a signature
MaxPortList == 2
\* most activities the server answers to one sub-query of a worker
MaxFound == 1
\* most signatures of the hunt whose results are prepared
MaxReportSigs == 2
\* most elements of a list value of an activity
MaxListLen == 2

VARIABLES
    \* ---- ZeroNetworksAPI._request ----
    max_retries,      \* self.max_retries
    attempt,          \* loop variable of `for attempt in range(self.max_retries)`
    last_exception,   \* local last_exception ("None" or the exception type)
    session_calls,    \* number of calls of self.session.request made by this _request
    transport_log,    \* what each call of self.session.request produced, in order
    req_pc,           \* "idle" | "loop" | "returned" | "raised"
    req_outcome,      \* the value returned or the exception raised by _request
    \* ---- ZeroNetworksAPI.iter_paginated ----
    pages,            \* the server's script: the page answered to the i-th get
    limit,            \* argument limit (0 stands for None / 0: both falsy)
    cursor,           \* local cursor
    page_count,       \* local page_count
    yielded,          \* the items yielded so far, in order
    get_log,          \* the query parameters of each call of self.get, in order (one
                      \* entry per call, however many attempts _request makes)
    query_params,     \* the dict the loop keeps: the other parameters and _cursor
    item_index,       \* how many items of the last response were yielded
    pag_pc,           \* "idle" | "loop" | "items" | "done" | "raised"
    pag_error,        \* the exception that ended the generator ("None" if none)
    \* ---- ZeroThreatHuntTools ----
    network_filters,  \* self.network_filters: field id -> capability flags
    fac_pc,           \* "idle" | "called" | "fetching" | "returned" | "raised"
    fac_call,         \* the operation called and its arguments
    fac_params,       \* the query parameters built for the request
    fac_outcome,      \* what the call returned or raised
    \* ---- ZNHuntOps._start_multithreaded_hunt ----
    rmm_count,        \* len(self.rmm_data.rmm_simplified_list)
    max_workers,      \* self.max_workers
    submitted,        \* how many signatures executor.submit was called for
    future,           \* signature -> state of its future
    collected,        \* the futures as_completed has handed to the loop (a set)
    results,          \* local results: the signatures whose result was appended
    logged_failures,  \* the signatures logged by the except clause
    hunt_pc,          \* "idle" | "start" | "rejected" | "submitting" | "collecting"
                      \* | "done" | "raised"
    \* ---- ZNHuntOps._get_unique_rmml_activities ----
    rmml,             \* one hunt result: its three lists of discovered activities
    unique_activities_map,  \* the dict, as its entries in insertion order
    dedup_done,       \* how many activities of each list were processed so far
    dedup_pc,         \* "idle" | "loop" | "done"
    \* ---- ZeroNetworksAPI.__init__ ----
    api_key,          \* argument api_key, as the structure its decoding depends on
    base_url,         \* argument base_url ("None" when not supplied)
    self_base_url,    \* self.base_url ("unset" until assigned)
    init_pc,          \* "idle" | "start" | "constructed" | "raised"
    init_error,        \* the exception __init__ raised ("None" if none)
    \* ---- ZNHuntOps._hunt_for_rmm ----
    rmm,              \* argument rmm: the signature's executables, domains and ports
    timestamps,       \* arguments from_timestamp and to_timestamp
    filter_holder,    \* local filter_holder: field id -> filter object
    worker_queries,   \* the sub-queries that issued their request, in order
    found,            \* how many activities each sub-query returned, by field id
    worker_pc,        \* "idle" | "start" | "src" | "dst" | "domains" | "ports"
                      \* | "collect" | "returned" | "raised"
    worker_outcome,    \* the results dict returned, or the exception raised
    \* ---- ZNHuntOps._prepare_data_for_analysis ----
    hunt_outcomes,    \* signature -> what its worker returned, or that it raised
    hunt_results,     \* argument results: the results of the workers that returned
    rmmls,            \* the filtered list, each entry with its unique_activities_map
    rmml_index,       \* position of the loop over rmmls (0: not started)
    activity_index,   \* position of the loop over the entry's unique activities
    asset_answers,    \* the server: asset id -> its answer to GET /assets/{id}
    asset_id_to_asset_name_map,  \* the cache, as a set of (id, name) entries
    asset_requests,   \* the asset ids of the GET /assets/{id} issued, in order
    src_asset_names,  \* the srcAssetName written to each activity, in order
    all_indicating_activities,   \* self.all_indicating_activities
    prep_pc,          \* "idle" | "start" | "dedup" | "decode" | "aggregate"
                      \* | "done" | "raised"
    prep_error,        \* the exception that ended the preparation ("None" if none)
    \* ---- _parse_iso8601_to_timestamp_ms
    iso8601_str,      \* the argument
    timestamp_ms,     \* the value returned, 0 before the return
    parse_pc,          \* "call", "returned", "raised"
    \* ---- ZNHuntOps: the augmentation of the filter metadata, the enrichment
    declared_filters, \* the metadata dict of the facade as built from the server
    mappings_file,    \* src/static/addt_filter_mappings.json: Absent, or its content
    hunt_network_filters, \* self._zero_threat_hunt_tools.network_filters
    raw_activity,     \* the activity handed to the recursive transformation
    data,             \* that activity as the transformation leaves it
    enrich_pc,         \* "init", "ready", "done"
    \* concurrent calls of _resolve_asset_id_to_asset_name
    resolutions        \* per caller: its asset id, position, fetched and returned name

reqVars == <<max_retries, attempt, last_exception, session_calls, transport_log,
             req_pc, req_outcome>>
pagVars == <<pages, limit, cursor, page_count, yielded, get_log, query_params,
             item_index, pag_pc, pag_error>>
facVars == <<network_filters, fac_pc, fac_call, fac_params, fac_outcome>>
huntVars == <<rmm_count, max_workers, submitted, future, collected, results,
              logged_failures, hunt_pc>>
dedupVars == <<rmml, unique_activities_map, dedup_done, dedup_pc>>
clientVars == <<api_key, base_url, self_base_url, init_pc, init_error>>
workerVars == <<rmm, timestamps, filter_holder, worker_queries, found, worker_pc,
                worker_outcome>>
prepVars == <<hunt_outcomes, hunt_results, rmmls, rmml_index, activity_index,
              asset_answers, asset_id_to_asset_name_map, asset_requests,
              src_asset_names, all_indicating_activities, prep_pc, prep_error>>
parseVars == <<iso8601_str, timestamp_ms, parse_pc>>
enrichVars == <<declared_filters, mappings_file, hunt_network_filters, raw_activity, data,
                enrich_pc>>
resolveVars == <<resolutions>>
vars == <<reqVars, pagVars, facVars, huntVars, dedupVars, clientVars, workerVars, prepVars, parseVars, enrichVars, resolveVars>>
exceptReq == <<pagVars, facVars, huntVars, dedupVars, clientVars, workerVars, prepVars, parseVars, enrichVars, resolveVars>>
exceptPag == <<reqVars, facVars, huntVars, dedupVars, clientVars, workerVars, prepVars, parseVars, enrichVars, resolveVars>>
exceptPagFac == <<reqVars, huntVars, dedupVars, clientVars, workerVars, prepVars, parseVars, enrichVars, resolveVars>>
exceptHunt == <<reqVars, pagVars, facVars, dedupVars, clientVars, workerVars, prepVars, parseVars, enrichVars, resolveVars>>
exceptDedup == <<reqVars, pagVars, facVars, huntVars, clientVars, workerVars, prepVars, parseVars, enrichVars, resolveVars>>
exceptClient == <<reqVars, pagVars, facVars, huntVars, dedupVars, workerVars, prepVars, parseVars, enrichVars, resolveVars>>
exceptWorker == <<reqVars, pagVars, facVars, huntVars, dedupVars, clientVars, prepVars, parseVars, enrichVars, resolveVars>>
exceptPrepare == <<reqVars, pagVars, facVars, huntVars, dedupVars, clientVars, workerVars, parseVars, enrichVars, resolveVars>>
exceptParse == <<reqVars, pagVars, facVars, huntVars, dedupVars, clientVars, workerVars, prepVars, enrichVars, resolveVars>>
exceptEnrich == <<reqVars, pagVars, facVars, huntVars, dedupVars, clientVars, workerVars, prepVars, parseVars, resolveVars>>
exceptResolve == <<reqVars, pagVars, facVars, huntVars, dedupVars, clientVars, workerVars, prepVars, parseVars, enrichVars>>

(***************************************************************************)
(* HTTP responses and ZeroNetworksAPI._handle_response                     *)
(***************************************************************************)
\* status codes a server may answer with
Statuses == {200, 201, 204, 302, 400, 401, 403, 404, 429, 500, 503}

\* what the body of a response may be: no content, a JSON object, a JSON value
\* that is not an object (array, string, number, null), text that is not JSON
Contents == {"none", "object", "nonobject", "text"}

Responses == [kind : {"response"}, status_code : Statuses, content : Contents]

\* response.json() if response.content else {}; on a JSON error {"detail": text}
response_body(content) ==
    CASE content = "none"      -> [py |-> "dict", val |-> "{}"]
      [] content = "object"    -> [py |-> "dict", val |-> "object"]
      [] content = "text"      -> [py |-> "dict", val |-> "{detail: text}"]
      [] content = "nonobject" -> [py |-> "other", val |-> "nonobject"]

NoBody == [py |-> "None", val |-> "None"]

Return(body) == [kind |-> "return", type |-> "None", status_code |-> 0, body |-> body]
Raise(type, status_code, body) ==
    [kind |-> "raise", type |-> type, status_code |-> status_code, body |-> body]
NoOutcome == [kind |-> "none", type |-> "None", status_code |-> 0, body |-> NoBody]

\* the if/elif chain that picks the exception class for a status code
error_class_of(status_code) ==
    CASE status_code = 401 -> "ZeroNetworksAuthenticationError"
      [] status_code = 403 -> "ZeroNetworksAuthorizationError"
      [] status_code = 404 -> "ZeroNetworksNotFoundError"
      [] status_code = 400 -> "ZeroNetworksBadRequestError"
      [] status_code >= 500 -> "ZeroNetworksServerError"
      [] OTHER             -> "ZeroNetworksAPIError"

\* ZeroNetworksAPIError and its subclasses
APIErrorClasses == {"ZeroNetworksAPIError", "ZeroNetworksAuthenticationError",
                    "ZeroNetworksAuthorizationError", "ZeroNetworksNotFoundError",
                    "ZeroNetworksBadRequestError", "ZeroNetworksServerError"}

\* _handle_response: 200 returns the parsed body; any other status raises.
\* The error message is read with response_body.get(...), which raises
\* AttributeError when the parsed body is not a dict.
handle_response(response) ==
    LET body == response_body(response.content) IN
    IF response.status_code = 200 THEN Return(body)
    ELSE IF body.py # "dict" THEN Raise("AttributeError", 0, NoBody)
    ELSE Raise(error_class_of(response.status_code), response.status_code, body)

(***************************************************************************)
(* ZeroNetworksAPI._request: the retry loop                                *)
(***************************************************************************)
\* the exceptions of self.session.request that the loop catches
RetriedExceptions == {"Timeout", "ConnectionError"}
\* another requests.RequestException (TooManyRedirects, ...): not caught
OtherExceptions == {"RequestException"}

TransportError(e) == [kind |-> "exception", status_code |-> 0, content |-> e]

\* except (requests.Timeout, requests.ConnectionError): is this exception caught?
is_retried(outcome) ==
    outcome.kind = "exception" /\ outcome.content \in RetriedExceptions

\* `if attempt < self.max_retries - 1`: is another attempt left?
attempts_leftBroken(a, n) == a < n

attempts_left(a, n) == a < n - 1

InitRequest ==
    /\ max_retries \in 0..MaxRetriesBound
    /\ attempt = 0
    /\ last_exception = "None"
    /\ session_calls = 0
    /\ transport_log = <<>>
    /\ req_pc = "loop"
    /\ req_outcome = NoOutcome

\* max_retries: int = 3, the default of ZeroNetworksAPI.__init__
DefaultMaxRetries == 3

IdleRequest ==
    /\ max_retries = DefaultMaxRetries
    /\ attempt = 0
    /\ last_exception = "None"
    /\ session_calls = 0
    /\ transport_log = <<>>
    /\ req_pc = "idle"
    /\ req_outcome = NoOutcome

\* one iteration of the loop with the transport's outcome `o`
request_iteration(o) ==
    /\ req_pc = "loop"
    /\ attempt < max_retries
    /\ session_calls' = session_calls + 1
    /\ transport_log' = Append(transport_log, o)
    /\ IF is_retried(o)
       THEN /\ last_exception' = o.content
            /\ IF attempts_left(attempt, max_retries)
               THEN /\ attempt' = attempt + 1
                    /\ req_pc' = "loop"
                    /\ req_outcome' = req_outcome
               ELSE /\ attempt' = attempt
                    /\ req_pc' = "raised"
                    /\ req_outcome' = Raise(o.content, 0, NoBody)
       ELSE IF o.kind = "exception"
       THEN /\ last_exception' = last_exception
            /\ attempt' = attempt
            /\ req_pc' = "raised"
            /\ req_outcome' = Raise(o.content, 0, NoBody)
       ELSE LET h == handle_response(o) IN
            /\ last_exception' = last_exception
            /\ attempt' = attempt
            /\ req_pc' = IF h.kind = "return" THEN "returned" ELSE "raised"
            /\ req_outcome' = h
    /\ UNCHANGED max_retries

\* self.session.request raises requests.Timeout or requests.ConnectionError
RequestTransportError ==
    /\ \E e \in RetriedExceptions : request_iteration(TransportError(e))
    /\ UNCHANGED exceptReq

\* self.session.request raises another exception
RequestOtherException ==
    /\ \E e \in OtherExceptions : request_iteration(TransportError(e))
    /\ UNCHANGED exceptReq

\* self.session.request returns a response
RequestResponse ==
    /\ \E r \in Responses : request_iteration(r)
    /\ UNCHANGED exceptReq

\* the for loop ends without an iteration having returned or raised: the code
\* after the loop raises last_exception if there is one and else returns None
RequestLoopExhausted ==
    /\ req_pc = "loop"
    /\ attempt >= max_retries
    /\ IF last_exception # "None"
       THEN /\ req_pc' = "raised"
            /\ req_outcome' = Raise(last_exception, 0, NoBody)
       ELSE /\ req_pc' = "returned"
            /\ req_outcome' = Return(NoBody)
    /\ UNCHANGED <<max_retries, attempt, last_exception, session_calls, transport_log>>
    /\ UNCHANGED exceptReq

NextRequest ==
    \/ RequestTransportError
    \/ RequestOtherException
    \/ RequestResponse
    \/ RequestLoopExhausted

(***************************************************************************)
(* ZeroNetworksAPI.iter_paginated                                          *)
(***************************************************************************)
\* what response.get(cursor_key) may be: absent (None), the empty string, a
\* non-empty string, a non-zero integer
\* "same" is a cursor string the server repeats on every page that carries it
CursorKinds == {"none", "empty", "str", "int", "same"}

\* self.get raises ZeroNetworksAPIError or one of its subclasses
ErrorPage == [kind |-> "error", is_list |-> TRUE, n |-> 0, cursor |-> "none",
              error |-> "ZeroNetworksAPIError"]
\* what self.get raises that is no ZeroNetworksAPIError: the transport's
\* exception when the retries are used up, another exception of the
\* transport, the AttributeError of _handle_response for an error status
\* whose body is no JSON object
GetExceptions == RetriedExceptions \cup OtherExceptions \cup {"AttributeError"}
FailedGet(e) == [kind |-> "exception", is_list |-> TRUE, n |-> 0, cursor |-> "none",
                 error |-> e]
\* self.get returns a value that is no dict: the body of a 200 that is a JSON
\* array, or None when max_retries is 0
NotDictPage == [kind |-> "notdict", is_list |-> TRUE, n |-> 0, cursor |-> "none",
                error |-> "AttributeError"]
\* the answer of a server whose script is used up: no items and no cursor
EmptyPage == [kind |-> "ok", is_list |-> TRUE, n |-> 0, cursor |-> "none",
              error |-> "None"]

\* a page is a get that fails, or a JSON object whose items field is a list
\* of n items or not a list at all, with a cursor field of one of the kinds
PageSet(lens) ==
    {ErrorPage, NotDictPage}
    \cup {FailedGet(e) : e \in GetExceptions}
    \cup [kind : {"ok"}, is_list : {TRUE}, n : lens, cursor : CursorKinds, error : {"None"}]
    \cup [kind : {"ok"}, is_list : {FALSE}, n : {0}, cursor : {"none", "str"},
          error : {"None"}]

Scripts(lens, maxlen) == UNION {[1..k -> PageSet(lens)] : k \in 1..maxlen}

\* the page the server answers to the i-th get of the iteration
ServerPage(i) == IF i <= Len(pages) THEN pages[i] ELSE EmptyPage

\* the j-th item of the i-th page
Item(i, j) == <<i, j>>

\* items = response.get(items_key, []); a value that is not a list counts as []
page_items(i, page) ==
    IF page.is_list THEN [j \in 1..page.n |-> Item(i, j)] ELSE <<>>

\* the value of response.get(cursor_key) on the i-th page
NoneCursor == [t |-> "None", v |-> 0]
cursor_value(i, page) ==
    CASE page.cursor = "none"  -> NoneCursor
      [] page.cursor = "empty" -> [t |-> "str", v |-> 0]
      [] page.cursor = "str"   -> [t |-> "str", v |-> i + 1]
      [] page.cursor = "int"   -> [t |-> "int", v |-> i + 1]
      [] page.cursor = "same"  -> [t |-> "str", v |-> 1]

\* `not next_cursor`: None, "" and 0 are falsy
cursor_is_falsy(c) == c.t = "None" \/ c.v = 0

\* `limit and len(items) < limit`
short_pageBroken(lim, n) == FALSE

short_page(lim, n) == lim # 0 /\ n < lim

\* the params argument of the callers: None, or a dict with a _limit
\* (0: no such key) and other keys, none of them the cursor parameter
NoCallerParams == [_limit |-> 0, from |-> 0]
CallerParams == {NoCallerParams, [_limit |-> 50, from |-> 1000]}

\* query_params = params.copy() if params else {};
\* if limit: query_params["_limit"] = limit
AbsentCursor == [t |-> "absent", v |-> 0]
start_query_params(params, lim) ==
    [rest |-> [params EXCEPT !._limit = IF lim # 0 THEN lim ELSE @],
     _cursor |-> AbsentCursor]

\* if cursor is not None: query_params[cursor_param] = cursor
with_cursorBroken(params, c) == params
with_cursor(params, c) ==
    IF c.t # "None" THEN [params EXCEPT !._cursor = c] ELSE params

\* query_params.pop(cursor_param, None)
pop_cursor(params) == [params EXCEPT !._cursor = AbsentCursor]

InitPaginate(scripts, limits) ==
    /\ pages \in scripts
    /\ limit \in limits
    /\ query_params \in {start_query_params(params, limit) : params \in CallerParams}
    /\ cursor = NoneCursor
    /\ page_count = 0
    /\ yielded = <<>>
    /\ get_log = <<>>
    /\ item_index = 0
    /\ pag_pc = "loop"
    /\ pag_error = "None"

IdlePaginate ==
    /\ pages = <<EmptyPage>>
    /\ limit = 0
    /\ query_params = start_query_params(NoCallerParams, 0)
    /\ cursor = NoneCursor
    /\ page_count = 0
    /\ yielded = <<>>
    /\ get_log = <<>>
    /\ item_index = 0
    /\ pag_pc = "idle"
    /\ pag_error = "None"

\* the next get of the loop: its index, the page it is answered, the _cursor sent
NextGet == Len(get_log) + 1
NextPage == ServerPage(NextGet)
SentParams == with_cursor(query_params, cursor)
SentCursor == SentParams._cursor

\* the response of the last get: its index, its page, its items
LastGet == Len(get_log)
LastPage == ServerPage(LastGet)
LastItems == page_items(LastGet, LastPage)

\* the cursor is put in query_params, self.get is called, and the generator
\* ends with the exception `error`
get_fails(error) ==
    /\ pag_pc = "loop"
    /\ query_params' = SentParams
    /\ get_log' = Append(get_log, SentParams)
    /\ pag_pc' = "raised"
    /\ pag_error' = error
    /\ UNCHANGED <<pages, limit, cursor, page_count, yielded, item_index>>
    /\ UNCHANGED exceptPag

\* self.get raises ZeroNetworksAPIError: logged and re-raised
iter_paginated_get_raises ==
    /\ NextPage.kind = "error"
    /\ get_fails(NextPage.error)

\* self.get raises another exception: `except ZeroNetworksAPIError` does not
\* catch it and it leaves the generator
iter_paginated_get_propagates ==
    /\ NextPage.kind = "exception"
    /\ get_fails(NextPage.error)

\* self.get returns a value that is no dict: response.get(items_key, [])
\* raises AttributeError
iter_paginated_response_not_dict ==
    /\ NextPage.kind = "notdict"
    /\ get_fails("AttributeError")

\* the top of the loop: the cursor is put in query_params, self.get returns
\* the response, its items are taken
iter_paginated_get ==
    /\ pag_pc = "loop"
    /\ NextPage.kind = "ok"
    /\ query_params' = SentParams
    /\ get_log' = Append(get_log, SentParams)
    /\ item_index' = 0
    /\ pag_pc' = "items"
    /\ UNCHANGED <<pages, limit, cursor, page_count, yielded, pag_error>>
    /\ UNCHANGED exceptPag

\* `for item in items: yield item`: the generator hands over the next k
\* items of the page; it is suspended at the yield of the last of them
yield_items(k) ==
    /\ pag_pc = "items"
    /\ k >= 1
    /\ item_index + k <= Len(LastItems)
    /\ yielded' = yielded \o SubSeq(LastItems, item_index + 1, item_index + k)
    /\ item_index' = item_index + k
    /\ UNCHANGED <<pages, limit, cursor, page_count, get_log, query_params, pag_pc,
                   pag_error>>
    /\ UNCHANGED exceptPag

\* a consumer that asks for one item at a time
iter_paginated_yield == yield_items(1)

\* the generator is resumed after the last item of the page (or the page had
\* no item): it reads the cursor of the response
items_exhausted == pag_pc = "items" /\ item_index = Len(LastItems)

\* a page whose cursor is absent or empty: break
iter_paginated_last_page ==
    /\ items_exhausted
    /\ cursor_is_falsy(cursor_value(LastGet, LastPage))
    /\ pag_pc' = "done"
    /\ UNCHANGED <<pages, limit, cursor, page_count, yielded, get_log, query_params,
                   item_index, pag_error>>
    /\ UNCHANGED exceptPag

\* a page whose cursor is a non-zero integer: `not next_cursor` is False, so
\* len(next_cursor) is evaluated and raises TypeError
iter_paginated_int_cursor ==
    /\ items_exhausted
    /\ ~cursor_is_falsy(cursor_value(LastGet, LastPage))
    /\ cursor_value(LastGet, LastPage).t = "int"
    /\ pag_pc' = "raised"
    /\ pag_error' = "TypeError"
    /\ UNCHANGED <<pages, limit, cursor, page_count, yielded, get_log, query_params,
                   item_index>>
    /\ UNCHANGED exceptPag

\* a page with a non-empty string cursor and fewer items than the limit: the
\* cursor is stored, then the loop breaks
iter_paginated_short_page ==
    /\ items_exhausted
    /\ ~cursor_is_falsy(cursor_value(LastGet, LastPage))
    /\ cursor_value(LastGet, LastPage).t = "str"
    /\ short_page(limit, Len(LastItems))
    /\ query_params' = pop_cursor(query_params)
    /\ cursor' = cursor_value(LastGet, LastPage)
    /\ page_count' = page_count + 1
    /\ pag_pc' = "done"
    /\ UNCHANGED <<pages, limit, yielded, get_log, item_index, pag_error>>
    /\ UNCHANGED exceptPag

\* a page with a non-empty string cursor that is not short: loop with the cursor
iter_paginated_next_page ==
    /\ items_exhausted
    /\ ~cursor_is_falsy(cursor_value(LastGet, LastPage))
    /\ cursor_value(LastGet, LastPage).t = "str"
    /\ ~short_page(limit, Len(LastItems))
    /\ query_params' = pop_cursor(query_params)
    /\ cursor' = cursor_value(LastGet, LastPage)
    /\ page_count' = page_count + 1
    /\ pag_pc' = "loop"
    /\ UNCHANGED <<pages, limit, yielded, get_log, item_index, pag_error>>
    /\ UNCHANGED exceptPag

(***************************************************************************)
(* ZeroThreatHuntTools: values, filter metadata, filter_object_builder     *)
(***************************************************************************)
\* Python values that are passed as filter values: a str or an int
S(x) == [t |-> "str", s |-> x, i |-> 0]
I(n) == [t |-> "int", s |-> "", i |-> n]

\* the values a caller passes: a name, a decimal string, a port, a zero
ValueElems == {S("a"), S("80"), I(443), I(0)}

ValueLists == UNION {[1..k -> ValueElems] : k \in 0..MaxValues}

\* the ports a caller passes: the values above and the ports at and next to
\* the ends of the valid range
PortElems == ValueElems \cup {I(1), I(65535), I(65536)}

PortLists == UNION {[1..k -> PortElems] : k \in 0..MaxValues}

\* str(value)
str_ofBroken(v) == v

str_of(v) == IF v.t = "str" THEN v ELSE S(ToString(v.i))

\* the integers whose decimal form the model's strings can spell
KnownInts == {0, 80, 443, 5938}

\* int(value): the integer itself, the integer a decimal string spells, or
\* ValueError for another string
int_raises(v) == v.t = "str" /\ \A n \in KnownInts : ToString(n) # v.s
int_of(v) ==
    IF v.t = "int" THEN v.i ELSE CHOOSE n \in KnownInts : ToString(n) = v.s

\* an argument that may be a single value or a list
Scalar(v) == [form |-> "scalar", value |-> v, items |-> <<>>]
List(l) == [form |-> "list", value |-> S(""), items |-> l]

\* `if not isinstance(x, list): x = [x]`
to_list(arg) == IF arg.form = "list" THEN arg.items ELSE <<arg.value>>

\* the field ids of the queries, and one field no operation owns
Fields == {"dstAsset", "srcProcessPath", "dstProcessPath", "dstPort",
           "dstIpAddress", "trafficType"}

\* an entry of the server's answer to GET /activities/network/filters
ServerFilters ==
    [id : Fields, disableExcludeSupport : BOOLEAN, isSingleValue : BOOLEAN]

\* _get_network_filters raises ValueError for an empty list
ServerFilterLists == UNION {[1..k -> ServerFilters] : k \in 1..MaxFilters}

\* _transform_network_filters_to_dict: keyed by id, a duplicate id is skipped
transform_network_filters_to_dict(filters) ==
    [id \in {filters[k].id : k \in 1..Len(filters)} |->
        LET first == CHOOSE k \in 1..Len(filters) :
                        /\ filters[k].id = id
                        /\ \A j \in 1..(k - 1) : filters[j].id # id
        IN  [disableExcludeSupport |-> filters[first].disableExcludeSupport,
             isSingleValue |-> filters[first].isSingleValue]]

FilterObj(id, inc, exc) ==
    [id |-> id, includeValues |-> inc, excludeValues |-> exc]

\* what a call of the facade returned or raised
FacReturn(value) == [kind |-> "return", type |-> "None", reason |-> "", value |-> value]
FacRaise(type, reason) == [kind |-> "raise", type |-> type, reason |-> reason, value |-> <<>>]
FacNone == [kind |-> "none", type |-> "None", reason |-> "", value |-> <<>>]

\* self.network_filters[field_name]: a field without metadata is a KeyError
has_metadata(field_name) == field_name \in DOMAIN network_filters

\* filter_object_builder: the checks in the order of the code, then str() on
\* every value
filter_object_builder(field_name, include_values, exclude_values) ==
    LET inc == to_list(include_values)
        exc == to_list(exclude_values)
    IN  IF Len(inc) <= 0 /\ Len(exc) <= 0
        THEN FacRaise("ZeroThreatHuntInvalidFilter", "empty")
        ELSE IF Len(exc) > 0 /\ ~has_metadata(field_name)
        THEN FacRaise("KeyError", field_name)
        ELSE IF Len(exc) > 0 /\ network_filters[field_name].disableExcludeSupport
        THEN FacRaise("ZeroThreatHuntInvalidFilter", "exclude")
        ELSE IF Len(inc) > 1 /\ ~has_metadata(field_name)
        THEN FacRaise("KeyError", field_name)
        ELSE IF Len(inc) > 1 /\ network_filters[field_name].isSingleValue
        THEN FacRaise("ZeroThreatHuntInvalidFilter", "single")
        ELSE FacReturn(<<FilterObj(field_name,
                                   [k \in 1..Len(inc) |-> str_of(inc[k])],
                                   [k \in 1..Len(exc) |-> str_of(exc[k])])>>)

(***************************************************************************)
(* ZeroThreatHuntTools: the query operations                               *)
(***************************************************************************)
SemanticOps == {"get_activities_to_domains", "get_activities_from_source_processes",
                "get_activities_to_destination_processes",
                "get_activities_to_destination_ports",
                "get_activities_to_destination_ips"}

\* the kwargs key each semantic operation stores its values under
op_field(op) ==
    CASE op = "get_activities_to_domains" -> "dstAsset"
      [] op = "get_activities_from_source_processes" -> "srcProcessPath"
      [] op = "get_activities_to_destination_processes" -> "dstProcessPath"
      [] op = "get_activities_to_destination_ports" -> "dstPort"
      [] op = "get_activities_to_destination_ips" -> "dstIpAddress"
      [] OTHER -> ""

\* the validation loop at the head of each semantic operation: every domain,
\* process path and IP address must be a str; every port must be an int, or
\* convert with int() without ValueError, and lie in 1..65535
value_is_validBroken(op, v) ==
    IF op = "get_activities_to_destination_ports"
    THEN ~int_raises(v) /\ int_of(v) >= 1 /\ int_of(v) < 65535
    ELSE v.t = "str"

value_is_valid(op, v) ==
    IF op = "get_activities_to_destination_ports"
    THEN ~int_raises(v) /\ int_of(v) >= 1 /\ int_of(v) <= 65535
    ELSE v.t = "str"

values_are_valid(op, values) ==
    \A k \in 1..Len(values) : value_is_valid(op, values[k])

\* from_timestamp / to_timestamp: absent, an ISO8601 string, another string.
\* An ISO8601 string is its text: the date as the number of days from
\* 1970-01-01, the time of day, and the suffix after the seconds ("" when the
\* string has no offset)
Iso8601(days, hour, minute, second, suffix) ==
    [k |-> "iso", days |-> days, hour |-> hour, minute |-> minute,
     second |-> second, suffix |-> suffix]
NoTimestamp == [Iso8601(0, 0, 0, 0, "") EXCEPT !.k = "absent"]
MalformedTimestamp == [Iso8601(0, 0, 0, 0, "") EXCEPT !.k = "malformed"]
\* a string of decimal digits, as the sequence of its digits
DecimalString(digits) ==
    [k |-> "decimal", days |-> 0, hour |-> 0, minute |-> 0, second |-> 0,
     suffix |-> "", digits |-> digits]

\* str(n) of an int n >= 0: its decimal digits
RECURSIVE str_digits(_)
str_digits(n) == IF n < 10 THEN <<n>> ELSE Append(str_digits(n \div 10), n % 10)

\* int(s) of a run of decimal digits
RECURSIVE digits_value(_)
digits_value(digits) ==
    IF digits = <<>> THEN 0
    ELSE digits_value(SubSeq(digits, 1, Len(digits) - 1)) * 10 + digits[Len(digits)]
\* the string with the Z suffix for the instant ms after the epoch (ms < 60000)
IsoTimestamp(ms) == Iso8601(0, 0, 0, ms \div 1000, "Z")

\* if iso8601_str.endswith("Z"): iso8601_str = iso8601_str[:-1] + "+00:00"
replace_trailing_Z(ts) ==
    IF ts.suffix = "Z" THEN [ts EXCEPT !.suffix = "+00:00"] ELSE ts

\* the minutes east of UTC an offset suffix stands for
utcoffset_minutes(suffix) ==
    CASE suffix = "+00:00" -> 0
      [] suffix = "+05:00" -> 300
      [] suffix = "-05:30" -> 0 - 330

\* the tzinfo of a datetime: None (aware FALSE) or a fixed offset
NoTzinfo == [aware |-> FALSE, minutes |-> 0]
Tzinfo(minutes) == [aware |-> TRUE, minutes |-> minutes]

\* a string of decimal digits read in the basic format YYYYMMDD, then any
\* one character as the separator, then HH, HHMM or HHMMSS
digits_year(digits) == digits_value(SubSeq(digits, 1, 4))
digits_month(digits) == digits_value(SubSeq(digits, 5, 6))
digits_day(digits) == digits_value(SubSeq(digits, 7, 8))
digits_hour(digits) ==
    IF Len(digits) >= 11 THEN digits_value(SubSeq(digits, 10, 11)) ELSE 0
digits_minute(digits) ==
    IF Len(digits) >= 13 THEN digits_value(SubSeq(digits, 12, 13)) ELSE 0
digits_second(digits) ==
    IF Len(digits) >= 15 THEN digits_value(SubSeq(digits, 14, 15)) ELSE 0

is_leap(year) == year % 4 = 0 /\ (year % 100 # 0 \/ year % 400 = 0)
days_in_month(year, month) ==
    IF month = 2 THEN (IF is_leap(year) THEN 29 ELSE 28)
    ELSE IF month \in {4, 6, 9, 11} THEN 30 ELSE 31

\* the days from 1970-01-01 to the date
days_from_civil(year, month, day) ==
    LET y == IF month <= 2 THEN year - 1 ELSE year
        era == y \div 400
        yoe == y - era * 400
        mp == IF month > 2 THEN month - 3 ELSE month + 9
        doy == (153 * mp + 2) \div 5 + day - 1
        doe == yoe * 365 + yoe \div 4 - yoe \div 100 + doy
    IN  era * 146097 + doe - 719468

\* datetime.fromisoformat (Python 3.11 and later) of a string of up to
\* fifteen decimal digits: the strings of 8, 11, 13 and 15 digits that spell
\* a date, or a date and a time of day around a ninth digit, are read as
\* that date and time; every other one is refused
digits_spell_date(digits) ==
    /\ Len(digits) \in {8, 11, 13, 15}
    /\ digits_year(digits) >= 1
    /\ digits_month(digits) \in 1..12
    /\ digits_day(digits) \in 1..days_in_month(digits_year(digits), digits_month(digits))
    /\ digits_hour(digits) <= 23
    /\ digits_minute(digits) <= 59
    /\ digits_second(digits) <= 59

\* datetime.fromisoformat: the fields of the text, naive when the text has
\* no offset; ValueError for a string that is not ISO8601
fromisoformat_raises(ts) ==
    \/ ts.k = "malformed"
    \/ ts.k = "decimal" /\ ~digits_spell_date(ts.digits)
fromisoformat(ts) ==
    IF ts.k = "decimal"
    THEN [days |-> days_from_civil(digits_year(ts.digits), digits_month(ts.digits),
                                   digits_day(ts.digits)),
          hour |-> digits_hour(ts.digits), minute |-> digits_minute(ts.digits),
          second |-> digits_second(ts.digits), tzinfo |-> NoTzinfo]
    ELSE [days |-> ts.days, hour |-> ts.hour, minute |-> ts.minute, second |-> ts.second,
          tzinfo |-> IF ts.suffix = "" THEN NoTzinfo
                     ELSE Tzinfo(utcoffset_minutes(ts.suffix))]

\* if dt.tzinfo is None: dt = dt.replace(tzinfo=timezone.utc)
naive_to_utcBroken(dt) == IF dt.tzinfo.aware THEN dt ELSE [dt EXCEPT !.tzinfo = Tzinfo(60)]
naive_to_utc(dt) == IF dt.tzinfo.aware THEN dt ELSE [dt EXCEPT !.tzinfo = Tzinfo(0)]

\* the seconds from 1970-01-01T00:00:00 to the wall-clock reading of dt
wall_seconds(dt) == ((dt.days * 24 + dt.hour) * 60 + dt.minute) * 60 + dt.second

\* dt.astimezone(timezone.utc): the same instant read on the UTC clock
astimezone_utc(dt) ==
    LET utc == wall_seconds(dt) - dt.tzinfo.minutes * 60
        day == IF utc >= 0 THEN utc \div 86400 ELSE 0 - ((86399 - utc) \div 86400)
        rest == utc - day * 86400
    IN  [days |-> day, hour |-> rest \div 3600, minute |-> (rest % 3600) \div 60,
         second |-> rest % 60, tzinfo |-> Tzinfo(0)]

\* datetime_to_timestamp_ms: int(dt.timestamp() * 1000) of an aware datetime
datetime_to_timestamp_ms(dt) == (wall_seconds(dt) - dt.tzinfo.minutes * 60) * 1000

\* _parse_iso8601_to_timestamp_ms: milliseconds since the epoch, or ValueError
parse_iso8601_raises(ts) == fromisoformat_raises(replace_trailing_Z(ts))
parse_iso8601_to_timestamp_ms(ts) ==
    datetime_to_timestamp_ms(
        astimezone_utc(naive_to_utc(fromisoformat(replace_trailing_Z(ts)))))

\* "_limit": 100, the default page size of _parse_kwargs_for_params
DefaultPageSize == 100

\* the from_timestamp, to_timestamp and limit keyword arguments of a call
\* (limit 0: not given)
ParamArgs ==
    {[from_timestamp |-> NoTimestamp, to_timestamp |-> NoTimestamp, limit |-> 0],
     [from_timestamp |-> IsoTimestamp(1000), to_timestamp |-> IsoTimestamp(2000), limit |-> 0],
     [from_timestamp |-> MalformedTimestamp, to_timestamp |-> NoTimestamp, limit |-> 0],
     [from_timestamp |-> IsoTimestamp(1000), to_timestamp |-> MalformedTimestamp, limit |-> 0],
     [from_timestamp |-> NoTimestamp, to_timestamp |-> NoTimestamp, limit |-> 50]}

NoParams ==
    [order |-> "desc", _limit |-> 0, has_from |-> FALSE, from |-> 0,
     has_to |-> FALSE, to |-> 0, has_filters |-> FALSE, _filters |-> <<>>]

\* _parse_kwargs_for_params: the defaults, then from, to and limit
parse_kwargs_for_params_raises(args) ==
    \/ args.from_timestamp.k # "absent" /\ parse_iso8601_raises(args.from_timestamp)
    \/ args.to_timestamp.k # "absent" /\ parse_iso8601_raises(args.to_timestamp)

parse_kwargs_for_params(args) ==
    [order |-> "desc",
     _limit |-> IF args.limit # 0 THEN args.limit ELSE DefaultPageSize,
     has_from |-> args.from_timestamp.k # "absent",
     from |-> parse_iso8601_to_timestamp_ms(args.from_timestamp),
     has_to |-> args.to_timestamp.k # "absent",
     to |-> parse_iso8601_to_timestamp_ms(args.to_timestamp),
     has_filters |-> FALSE,
     _filters |-> <<>>]

\* a further keyword argument naming a field: a single value, a list, or a
\* dict with include_values and exclude_values
NoExtra == [form |-> "none", field |-> "", value |-> S(""),
            include_values |-> <<>>, exclude_values |-> <<>>]
ExtraShapes ==
    {[form |-> "scalar", value |-> S("x"), include_values |-> <<>>, exclude_values |-> <<>>],
     [form |-> "list", value |-> S(""), include_values |-> <<S("x"), I(7)>>, exclude_values |-> <<>>],
     [form |-> "dict", value |-> S(""), include_values |-> <<>>, exclude_values |-> <<>>],
     [form |-> "dict", value |-> S(""), include_values |-> <<S("x")>>, exclude_values |-> <<S("y")>>],
     [form |-> "dict", value |-> S(""), include_values |-> <<>>, exclude_values |-> <<S("y")>>]}
ExtraArgs(fields) ==
    {NoExtra} \cup
    {[form |-> e.form, field |-> f, value |-> e.value,
      include_values |-> e.include_values, exclude_values |-> e.exclude_values] :
        f \in fields, e \in ExtraShapes}

\* a kwargs entry: the field and its value
KwArg(field, form, value, inc, exc) ==
    [field |-> field, form |-> form, value |-> value,
     include_values |-> inc, exclude_values |-> exc]

\* `if field in kwargs: kwargs[field].extend(values) else: kwargs[field] = values`:
\* extend exists on a list only
extend_raises(op, extra) ==
    extra.form # "none" /\ extra.field = op_field(op) /\ extra.form # "list"

\* the kwargs of _get_activities_parse_kwargs that may name fields, in order
kwargs_of(call) ==
    LET own == op_field(call.op)
        e == call.extra
    IN  IF call.op = "get_activities"
        THEN IF e.form = "none" THEN <<>> ELSE <<e>>
        ELSE IF e.form = "none"
        THEN <<KwArg(own, "list", S(""), call.values, <<>>)>>
        ELSE IF e.field = own
        THEN <<KwArg(own, "list", S(""), e.include_values \o call.values, <<>>)>>
        ELSE <<e, KwArg(own, "list", S(""), call.values, <<>>)>>

\* _parse_kwargs_for_network_filters: the kwargs whose key is in the metadata
is_network_filter(key) == key \in DOMAIN network_filters

parse_kwargs_for_network_filters(kwargs) ==
    SelectSeq(kwargs, LAMBDA kw : is_network_filter(kw.field))

\* the include and exclude values handed to the filter builder for one entry
include_of(kw) ==
    IF kw.form = "dict" THEN List(kw.include_values)
    ELSE IF kw.form = "list" THEN List(kw.include_values)
    ELSE Scalar(kw.value)
exclude_of(kw) ==
    IF kw.form = "dict" THEN List(kw.exclude_values) ELSE List(<<>>)

\* the loop over parsed_filters: the filter objects, or the first error
RECURSIVE build_filters(_)
build_filters(parsed) ==
    IF parsed = <<>> THEN FacReturn(<<>>)
    ELSE LET head == filter_object_builder(Head(parsed).field,
                                           include_of(Head(parsed)),
                                           exclude_of(Head(parsed)))
         IN  IF head.kind = "raise" THEN head
             ELSE LET rest == build_filters(Tail(parsed))
                  IN  IF rest.kind = "raise" THEN rest
                      ELSE FacReturn(head.value \o rest.value)

\* what a query does before its first request: an error of the validation,
\* or the parameters of the request
\*   1. the semantic operation validates its values and stores them in kwargs
\*   2. _get_activities_parse_kwargs builds the parameters,
\*   3. then the filter objects of the kwargs the metadata knows
prepare_query(call) ==
    IF call.op \in SemanticOps /\ ~values_are_valid(call.op, call.values)
    THEN FacRaise("ZeroThreatHuntInvalidValues", "value")
    ELSE IF call.op \in SemanticOps /\ extend_raises(call.op, call.extra)
    THEN FacRaise("AttributeError", "extend")
    ELSE IF parse_kwargs_for_params_raises(call.args)
    THEN FacRaise("ValueError", "timestamp")
    ELSE LET parsed_filters == parse_kwargs_for_network_filters(kwargs_of(call))
             built == build_filters(parsed_filters)
             params == parse_kwargs_for_params(call.args)
         IN  IF Len(parsed_filters) = 0 THEN FacReturn(<<params>>)
             ELSE IF built.kind = "raise" THEN built
             ELSE FacReturn(<<[params EXCEPT !.has_filters = TRUE,
                                             !._filters = built.value]>>)

\* _limit: int = 100, the default of _get_activities_from_api_client
DefaultLimit == 100

\* what the server may answer to the activities requests of one query
Page(n, c) == [kind |-> "ok", is_list |-> TRUE, n |-> n, cursor |-> c, error |-> "None"]
ActivityScripts ==
    {<<ErrorPage>>, <<Page(1, "none")>>, <<Page(1, "int")>>,
     <<Page(DefaultLimit, "str"), Page(1, "str")>>,
     <<Page(DefaultLimit, "str"), ErrorPage>>,
     <<FailedGet("Timeout")>>, <<NotDictPage>>}

\* query_params["_limit"] of the requests of the iteration a query started:
\* the copy of params, overwritten by a truthy limit argument
query_params_limit == IF limit # 0 THEN limit ELSE fac_params._limit

\* a query operation up to its first request: it raises, or starts
\* self.api.iter_paginated("/activities/network", limit=_limit, params=params)
query(op) ==
    /\ fac_pc = "called"
    /\ fac_call.op = op
    /\ LET prepared == prepare_query(fac_call) IN
       IF prepared.kind = "raise"
       THEN /\ fac_pc' = "raised"
            /\ fac_outcome' = prepared
            /\ UNCHANGED <<fac_params, pagVars>>
       ELSE /\ fac_pc' = "fetching"
            /\ fac_params' = prepared.value[1]
            /\ fac_outcome' = fac_outcome
            /\ pages' \in ActivityScripts
            /\ limit' = DefaultLimit
            /\ cursor' = NoneCursor
            /\ page_count' = 0
            /\ yielded' = <<>>
            /\ get_log' = <<>>
            /\ query_params' = start_query_params(prepared.value[1], DefaultLimit)
            /\ item_index' = 0
            /\ pag_pc' = "loop"
            /\ pag_error' = "None"
    /\ UNCHANGED <<network_filters, fac_call>>
    /\ UNCHANGED exceptPagFac

get_activities_to_domains ==
    /\ fac_call.op = "get_activities_to_domains"
    /\ query(fac_call.op)

get_activities_from_source_processes ==
    /\ fac_call.op = "get_activities_from_source_processes"
    /\ query(fac_call.op)

get_activities_to_destination_processes ==
    /\ fac_call.op = "get_activities_to_destination_processes"
    /\ query(fac_call.op)

get_activities_to_destination_ports ==
    /\ fac_call.op = "get_activities_to_destination_ports"
    /\ query(fac_call.op)

get_activities_to_destination_ips ==
    /\ fac_call.op = "get_activities_to_destination_ips"
    /\ query(fac_call.op)

get_activities ==
    /\ fac_call.op = "get_activities"
    /\ query(fac_call.op)


\* a direct call of filter_object_builder
filter_object_builder_call ==
    /\ fac_pc = "called"
    /\ fac_call.op = "filter_object_builder"
    /\ LET built == filter_object_builder(fac_call.field_name, fac_call.include_values,
                                          fac_call.exclude_values) IN
       /\ fac_pc' = IF built.kind = "raise" THEN "raised" ELSE "returned"
       /\ fac_outcome' = built
    /\ UNCHANGED <<network_filters, fac_call, fac_params>>
    /\ UNCHANGED pagVars
    /\ UNCHANGED exceptPagFac

\* _get_activities_from_api_client has no except clause: an error of the
\* iteration leaves the query as it is
propagated_errorBroken(e) ==
    IF e = "ZeroNetworksAPIError" THEN "ZeroThreatHuntInvalidFilter" ELSE e

propagated_error(e) == e

\* `for activity in self.api.iter_paginated(...): activities.append(activity)`:
\* the loop of the query takes the items of a page one after the other and
\* does nothing else between them
get_activities_from_api_client_appends ==
    /\ fac_pc = "fetching"
    /\ yield_items(Len(LastItems) - item_index)

\* the iteration is over: the activities collected are returned
get_activities_from_api_client_returns ==
    /\ fac_pc = "fetching"
    /\ pag_pc = "done"
    /\ fac_pc' = "returned"
    /\ fac_outcome' = FacReturn(yielded)
    /\ UNCHANGED <<network_filters, fac_call, fac_params>>
    /\ UNCHANGED pagVars
    /\ UNCHANGED exceptPagFac

\* `for activity in self.api.iter_paginated(...)` is in no try block: the
\* activities appended so far are lost with the frame of the call
failed_iterationBroken(error, activities) == FacReturn(activities)
failed_iteration(error, activities) == FacRaise(propagated_error(error), "request")

\* the iteration raised
get_activities_from_api_client_raises ==
    /\ fac_pc = "fetching"
    /\ pag_pc = "raised"
    /\ fac_outcome' = failed_iteration(pag_error, yielded)
    /\ fac_pc' = IF fac_outcome'.kind = "raise" THEN "raised" ELSE "returned"
    /\ UNCHANGED <<network_filters, fac_call, fac_params>>
    /\ UNCHANGED pagVars
    /\ UNCHANGED exceptPagFac

\* the calls of the facade: a query operation with its values and keyword
\* arguments, or filter_object_builder with a field and its two arguments
QueryCalls ==
    UNION {[op : {o},
            values : IF o = "get_activities" THEN {<<>>}
                     ELSE IF o = "get_activities_to_destination_ports" THEN PortLists
                     ELSE ValueLists,
            args : ParamArgs,
            extra : ExtraArgs({"trafficType",
                               IF o = "get_activities" THEN "dstAsset" ELSE op_field(o)})] :
           o \in SemanticOps \cup {"get_activities"}}

BuilderArgs == {Scalar(v) : v \in ValueElems} \cup {List(l) : l \in ValueLists}

BuilderCalls ==
    [op : {"filter_object_builder"}, field_name : Fields,
     include_values : BuilderArgs, exclude_values : BuilderArgs]

\* a facade constructed against a server that answered `filters`, and a call
InitFacade ==
    /\ network_filters \in {transform_network_filters_to_dict(filters) :
                               filters \in ServerFilterLists}
    /\ fac_pc = "called"
    /\ fac_call \in QueryCalls \cup BuilderCalls
    /\ fac_params = NoParams
    /\ fac_outcome = FacNone

IdleFacade ==
    /\ network_filters = <<>>
    /\ fac_pc = "idle"
    /\ fac_call = [op |-> "none"]
    /\ fac_params = NoParams
    /\ fac_outcome = FacNone

(***************************************************************************)
(* ZNHuntOps._start_multithreaded_hunt                                     *)
(***************************************************************************)
\* max_workers: int = 5, the class attribute of ZNHuntOps
DefaultMaxWorkers == 5

\* the signatures of self.rmm_data.rmm_simplified_list, by position
Signatures == 1..rmm_count

\* what the requests of a query may raise: an API error, the TypeError of an
\* integer cursor, the AttributeError of a body that is no JSON object, the
\* transport's exception when the retries are used up, another exception of
\* the transport, which is not retried
QueryErrors == {"ZeroNetworksAPIError", "TypeError", "AttributeError", "Timeout",
                "ConnectionError", "RequestException"}

\* what _hunt_for_rmm may raise in a worker: an error of the filter builder,
\* the ValueError of a timestamp, an invalid value, an error of a request
WorkerExceptions == {"ValueError", "KeyError", "ZeroThreatHuntInvalidFilter",
                     "ZeroThreatHuntInvalidValues"} \cup QueryErrors

\* the exceptions that derive from BaseException and not from Exception
BaseExceptionsOnly == {"KeyboardInterrupt", "SystemExit", "GeneratorExit"}

Unsubmitted == [state |-> "unsubmitted", exc |-> "None"]
Pending == [state |-> "pending", exc |-> "None"]
Running == [state |-> "running", exc |-> "None"]
Returned == [state |-> "returned", exc |-> "None"]
Raised(e) == [state |-> "raised", exc |-> e]

\* `except Exception`: every exception a worker raises is caught
is_caughtBroken(e) == e = "ZeroNetworksAPIError"

is_caught(e) == e \notin BaseExceptionsOnly

InitHunt ==
    /\ rmm_count \in 0..MaxSigs
    /\ max_workers \in 0..MaxWorkersBound
    /\ submitted = 0
    /\ future = [r \in 1..rmm_count |-> Unsubmitted]
    /\ collected = {}
    /\ results = <<>>
    /\ logged_failures = <<>>
    /\ hunt_pc = "start"

IdleHunt ==
    /\ rmm_count = 0
    /\ max_workers = DefaultMaxWorkers
    /\ submitted = 0
    /\ future = <<>>
    /\ collected = {}
    /\ results = <<>>
    /\ logged_failures = <<>>
    /\ hunt_pc = "idle"

\* ThreadPoolExecutor(max_workers=0) raises ValueError
executor_rejects ==
    /\ hunt_pc = "start"
    /\ max_workers <= 0
    /\ hunt_pc' = "rejected"
    /\ UNCHANGED <<rmm_count, max_workers, submitted, future, collected, results,
                   logged_failures>>
    /\ UNCHANGED exceptHunt

executor_created ==
    /\ hunt_pc = "start"
    /\ max_workers > 0
    /\ hunt_pc' = "submitting"
    /\ UNCHANGED <<rmm_count, max_workers, submitted, future, collected, results,
                   logged_failures>>
    /\ UNCHANGED exceptHunt

\* executor.submit(self._hunt_for_rmm, rmm=rmm, ...) for the next signature
submit ==
    /\ hunt_pc = "submitting"
    /\ submitted < rmm_count
    /\ submitted' = submitted + 1
    /\ future' = [future EXCEPT ![submitted + 1] = Pending]
    /\ UNCHANGED <<rmm_count, max_workers, collected, results, logged_failures, hunt_pc>>
    /\ UNCHANGED exceptHunt

\* every signature is submitted: the loop over as_completed begins
all_submitted ==
    /\ hunt_pc = "submitting"
    /\ submitted = rmm_count
    /\ hunt_pc' = "collecting"
    /\ UNCHANGED <<rmm_count, max_workers, submitted, future, collected, results,
                   logged_failures>>
    /\ UNCHANGED exceptHunt

RunningWorkers == {r \in Signatures : future[r].state = "running"}

\* ThreadPoolExecutor(max_workers=self.max_workers): the pool has at most
\* max_workers threads, each running one call at a time
thread_availableBroken == Cardinality(RunningWorkers) <= max_workers

\* a thread is busy while it runs a call and takes the next one after it
busy_threadsBroken ==
    {r \in Signatures : future[r].state \in {"running", "returned", "raised"}}
busy_threads == RunningWorkers

thread_available == Cardinality(busy_threads) < max_workers

\* a thread of the pool takes the oldest queued signature
worker_starts ==
    /\ hunt_pc \in {"submitting", "collecting", "raised"}
    /\ thread_available
    /\ \E r \in Signatures :
        /\ future[r].state = "pending"
        /\ \A q \in 1..(r - 1) : future[q].state # "pending"
        /\ future' = [future EXCEPT ![r] = Running]
    /\ UNCHANGED <<rmm_count, max_workers, submitted, collected, results,
                   logged_failures, hunt_pc>>
    /\ UNCHANGED exceptHunt

\* _hunt_for_rmm returns its result
worker_returns ==
    /\ \E r \in RunningWorkers : future' = [future EXCEPT ![r] = Returned]
    /\ UNCHANGED <<rmm_count, max_workers, submitted, collected, results,
                   logged_failures, hunt_pc>>
    /\ UNCHANGED exceptHunt

\* _hunt_for_rmm raises
worker_raises ==
    /\ \E r \in RunningWorkers, e \in WorkerExceptions :
        future' = [future EXCEPT ![r] = Raised(e)]
    /\ UNCHANGED <<rmm_count, max_workers, submitted, collected, results,
                   logged_failures, hunt_pc>>
    /\ UNCHANGED exceptHunt

\* as_completed hands over a finished future; future.result() returns
collect_result ==
    /\ hunt_pc = "collecting"
    /\ \E r \in Signatures \ collected :
        /\ future[r].state = "returned"
        /\ collected' = collected \cup {r}
        /\ results' = Append(results, r)
    /\ UNCHANGED <<rmm_count, max_workers, submitted, future, logged_failures, hunt_pc>>
    /\ UNCHANGED exceptHunt

\* as_completed hands over a finished future; future.result() raises the
\* worker's exception, which the except clause logs, or which leaves the hunt
collect_exception ==
    /\ hunt_pc = "collecting"
    /\ \E r \in Signatures \ collected :
        /\ future[r].state = "raised"
        /\ collected' = collected \cup {r}
        /\ IF is_caught(future[r].exc)
           THEN /\ logged_failures' = Append(logged_failures, r)
                /\ hunt_pc' = hunt_pc
           ELSE /\ logged_failures' = logged_failures
                /\ hunt_pc' = "raised"
    /\ UNCHANGED <<rmm_count, max_workers, submitted, future, results>>
    /\ UNCHANGED exceptHunt

\* `for future in as_completed(future_to_rmm)` ends when every future was
\* handed over, that is when every worker has finished
as_completed_exhaustedBroken == collected # {}
as_completed_exhausted == collected = Signatures

\* as_completed is exhausted, the pool shuts down: return results
hunt_returns ==
    /\ hunt_pc = "collecting"
    /\ as_completed_exhausted
    /\ hunt_pc' = "done"
    /\ UNCHANGED <<rmm_count, max_workers, submitted, future, collected, results,
                   logged_failures>>
    /\ UNCHANGED exceptHunt

(***************************************************************************)
(* ZNHuntOps._get_unique_rmml_activities and __is_activity_unique          *)
(***************************************************************************)
\* the indicator types, in the order their lists are processed
Categories == <<"executable", "domain", "port">>

\* the event record ids the activities of the model carry
EventIds == {1, 2}

\* the "src" object of an activity: with an eventRecordId, or without one
SrcChoices ==
    {[has_eventRecordId |-> FALSE, eventRecordId |-> 0]} \cup
    {[has_eventRecordId |-> TRUE, eventRecordId |-> n] : n \in EventIds}

\* an activity: its src object; the list and position it was found at stand
\* for the rest of its content
Activity(category, position, src) ==
    [src |-> src, category |-> category, position |-> position]

ActivityLists(category) ==
    UNION {{[k \in 1..n |-> Activity(category, k, srcs[k])] : srcs \in [1..n -> SrcChoices]} :
           n \in 0..MaxActs}

\* str(activity.get("src", {}).get("eventRecordId", ""))
event_record_id(activity) ==
    IF activity.src.has_eventRecordId
    THEN ToString(activity.src.eventRecordId)
    ELSE ""

\* the position of the key in the map (0: not in the map)
index_of(map, key) ==
    IF \E k \in 1..Len(map) : map[k].key = key
    THEN CHOOSE k \in 1..Len(map) : map[k].key = key
    ELSE 0

\* __is_activity_unique: a new key gets an entry with this indicator and the
\* activity; a known key gets the indicator added to its entry
is_activity_uniqueBroken(activity, indicator_type, map) ==
    LET key == event_record_id(activity)
        at == index_of(map, key)
    IN  IF at = 0
        THEN Append(map, [key |-> key, indicators |-> {indicator_type},
                          activity |-> activity])
        ELSE [map EXCEPT ![at].indicators = {indicator_type}]

is_activity_unique(activity, indicator_type, map) ==
    LET key == event_record_id(activity)
        at == index_of(map, key)
    IN  IF at = 0
        THEN Append(map, [key |-> key, indicators |-> {indicator_type},
                          activity |-> activity])
        ELSE [map EXCEPT ![at].indicators = @ \cup {indicator_type}]

InitDedup ==
    /\ rmml \in [executable : ActivityLists("executable"),
                 domain : ActivityLists("domain"),
                 port : ActivityLists("port")]
    /\ unique_activities_map = <<>>
    /\ dedup_done = [executable |-> 0, domain |-> 0, port |-> 0]
    /\ dedup_pc = "loop"

IdleDedup ==
    /\ rmml = [executable |-> <<>>, domain |-> <<>>, port |-> <<>>]
    /\ unique_activities_map = <<>>
    /\ dedup_done = [executable |-> 0, domain |-> 0, port |-> 0]
    /\ dedup_pc = "idle"

\* the next activity of one of the three loops
dedup_step(category) ==
    /\ dedup_pc = "loop"
    /\ dedup_done[category] < Len(rmml[category])
    /\ unique_activities_map' =
           is_activity_unique(rmml[category][dedup_done[category] + 1], category,
                              unique_activities_map)
    /\ dedup_done' = [dedup_done EXCEPT ![category] = @ + 1]
    /\ UNCHANGED <<rmml, dedup_pc>>
    /\ UNCHANGED exceptDedup

\* for activity in rmml.get("executable_activities_discovered", [])
dedup_executable ==
    /\ dedup_step("executable")

\* for activity in rmml.get("domain_activities_discovered", [])
dedup_domain ==
    /\ dedup_done.executable = Len(rmml.executable)
    /\ dedup_step("domain")

\* for activity in rmml.get("port_activities_discovered", [])
dedup_port ==
    /\ dedup_done.executable = Len(rmml.executable)
    /\ dedup_done.domain = Len(rmml.domain)
    /\ dedup_step("port")

\* rmml.update({"unique_activities_map": list(unique_activities_map.values())})
get_unique_rmml_activities_returns ==
    /\ dedup_pc = "loop"
    /\ \A k \in 1..3 : dedup_done[Categories[k]] = Len(rmml[Categories[k]])
    /\ dedup_pc' = "done"
    /\ UNCHANGED <<rmml, unique_activities_map, dedup_done>>
    /\ UNCHANGED exceptDedup

(***************************************************************************)
(* ZeroNetworksAPI.__init__: the base URL of a new client                  *)
(***************************************************************************)
DEFAULT_BASE_URL == "https://portal.zeronetworks.com"

\* str.strip on the strings of the model
strip(s) ==
    CASE s = " "                       -> ""
      [] s = " https://zn.example "     -> "https://zn.example"
      [] s = " https://caller.example " -> "https://caller.example"
      [] OTHER                          -> s

\* Python truthiness of an optional string ("None" stands for None)
str_is_truthy(s) == s \notin {"None", ""}

\* the value of the "aud" entry of a payload object: absent, null, a string,
\* an integer, or a list (of n strings)
AudAbsent == [t |-> "absent", s |-> "", n |-> 0]
AudNull == [t |-> "null", s |-> "", n |-> 0]
AudStr(s) == [t |-> "str", s |-> s, n |-> 0]
AudInt(n) == [t |-> "int", s |-> "", n |-> n]
AudList(n) == [t |-> "list", s |-> "", n |-> n]
AudValues ==
    {AudAbsent, AudNull, AudInt(0), AudInt(5), AudList(0), AudList(1)}
    \cup {AudStr(s) : s \in {"", " ", "https://zn.example", " https://zn.example "}}

\* what the middle segment of a key is: not base64, base64 of bytes that are
\* not UTF-8, of text that is not JSON, or of a JSON value of some kind
UndecodablePayloads == {"bad_base64", "bad_utf8", "bad_json"}
NonObjectPayloads == {"array", "string", "number", "null"}
PayloadKinds == UndecodablePayloads \cup NonObjectPayloads \cup {"object"}

\* an API key: its text when it is None, empty or blank, otherwise ("token")
\* the number of its dot-separated segments, its payload and the payload's aud
Key(text, segments, payload, aud) ==
    [text |-> text, segments |-> segments, payload |-> payload, aud |-> aud]
ApiKeys ==
    {Key(t, 1, "bad_base64", AudAbsent) : t \in {"None", "", " "}}
    \cup {Key("token", n, "object", AudStr("https://zn.example")) : n \in {1, 2, 4}}
    \cup {Key("token", 3, p, AudAbsent) : p \in UndecodablePayloads \cup NonObjectPayloads}
    \cup {Key("token", 3, "object", a) : a \in AudValues}

BaseUrlArgs == {"None", "", " ", "https://caller.example", " https://caller.example "}

KeyReturn(value) == [kind |-> "return", type |-> "None", value |-> value]
KeyRaise(type) == [kind |-> "raise", type |-> type, value |-> "None"]

\* decode_jwt_api_key: ValueError unless the key has three segments and the
\* middle one decodes to JSON; otherwise the payload (of any JSON kind)
decode_jwt_api_key(key) ==
    IF key.segments # 3 THEN KeyRaise("ValueError")
    ELSE IF key.payload \in UndecodablePayloads THEN KeyRaise("ValueError")
    ELSE KeyReturn(key.payload)

\* Python truthiness of the value of payload.get("aud")
aud_is_truthy(aud) ==
    CASE aud.t \in {"absent", "null"} -> FALSE
      [] aud.t = "str"  -> aud.s # ""
      [] aud.t = "int"  -> aud.n # 0
      [] aud.t = "list" -> aud.n # 0

\* extract_base_url_from_api_key: payload.get("aud") needs a dict, and
\* base_url.strip() a string
extract_base_url_from_api_key(key) ==
    LET payload == decode_jwt_api_key(key) IN
    IF payload.kind = "raise" THEN payload
    ELSE IF payload.value # "object" THEN KeyRaise("AttributeError")
    ELSE IF ~aud_is_truthy(key.aud) THEN KeyRaise("ValueError")
    ELSE IF key.aud.t # "str" THEN KeyRaise("AttributeError")
    ELSE IF strip(key.aud.s) = "" THEN KeyRaise("ValueError")
    ELSE KeyReturn(key.aud.s)

\* `not api_key or not api_key.strip()`
key_is_empty(key) == key.text \in {"None", "", " "}

InitClient ==
    /\ api_key \in ApiKeys
    /\ base_url \in BaseUrlArgs
    /\ self_base_url = "unset"
    /\ init_pc = "start"
    /\ init_error = "None"

IdleClient ==
    /\ api_key = Key("token", 3, "object", AudStr("https://zn.example"))
    /\ base_url = "None"
    /\ self_base_url = "https://zn.example"
    /\ init_pc = "idle"
    /\ init_error = "None"

\* raise ValueError("API key cannot be empty")
init_rejects_empty_key ==
    /\ init_pc = "start"
    /\ key_is_empty(api_key)
    /\ init_pc' = "raised"
    /\ init_error' = "ValueError"
    /\ UNCHANGED <<api_key, base_url, self_base_url>>
    /\ UNCHANGED exceptClient

\* self.base_url = extract_base_url_from_api_key(api_key)
init_base_url_from_key ==
    /\ init_pc = "start"
    /\ ~key_is_empty(api_key)
    /\ extract_base_url_from_api_key(api_key).kind = "return"
    /\ self_base_url' = extract_base_url_from_api_key(api_key).value
    /\ init_pc' = "constructed"
    /\ UNCHANGED <<api_key, base_url, init_error>>
    /\ UNCHANGED exceptClient

\* which exceptions of the extraction the constructor handles
is_handled(type) == type = "ValueError"

\* except ValueError: the caller's base_url if truthy, else the default
init_base_url_fallback ==
    /\ init_pc = "start"
    /\ ~key_is_empty(api_key)
    /\ extract_base_url_from_api_key(api_key).kind = "raise"
    /\ is_handled(extract_base_url_from_api_key(api_key).type)
    /\ self_base_url' = IF str_is_truthy(base_url)
                        THEN strip(base_url)
                        ELSE strip(DEFAULT_BASE_URL)
    /\ init_pc' = "constructed"
    /\ UNCHANGED <<api_key, base_url, init_error>>
    /\ UNCHANGED exceptClient

\* an exception of the extraction that is not a ValueError leaves __init__
init_extraction_error_propagates ==
    /\ init_pc = "start"
    /\ ~key_is_empty(api_key)
    /\ extract_base_url_from_api_key(api_key).kind = "raise"
    /\ ~is_handled(extract_base_url_from_api_key(api_key).type)
    /\ init_pc' = "raised"
    /\ init_error' = extract_base_url_from_api_key(api_key).type
    /\ UNCHANGED <<api_key, base_url, self_base_url>>
    /\ UNCHANGED exceptClient

(***************************************************************************)
(* ZNHuntOps._hunt_for_rmm: the sub-queries of one signature               *)
(***************************************************************************)
\* a field of a signature: absent, or present with its value; executables
\* is a map from platform to a list of paths (here the lists, in the map's
\* order), domains and ports are lists
Absent == [form |-> "absent", items |-> <<>>]
Present(items) == [form |-> "present", items |-> items]

\* rmm.get(field): truthy when the field is present and not empty
is_truthy(field) == field.form = "present" /\ Len(field.items) > 0

ExecutableMaps ==
    {<<>>, <<<<>>>>, <<<<>>, <<>>>>, <<<<S("a.exe")>>>>,
     <<<<S("a.exe")>>, <<S("b")>>>>, <<<<>>, <<S("b")>>>>}

DomainLists == {<<>>, <<S("a")>>, <<S("a"), S("b")>>}

\* the ports of a signature: the two common ports, another one, and a
\* number that is no port
SignaturePorts == {I(80), I(443), I(5938), I(0)}
SignaturePortLists == UNION {[1..k -> SignaturePorts] : k \in 0..MaxPortList}

RmmSignatures ==
    [executables : {Absent} \cup {Present(e) : e \in ExecutableMaps},
     domains : {Absent} \cup {Present(d) : d \in DomainLists},
     ports : {Absent} \cup {Present(p) : p \in SignaturePortLists}]

\* the metadata of the four fields the worker filters on: every field with
\* any isSingleValue flag, or the metadata without the domain field
HuntFields == {"srcProcessPath", "dstProcessPath", "dstAsset", "dstPort"}
HuntMetadata ==
    {[f \in HuntFields |-> [disableExcludeSupport |-> FALSE, isSingleValue |-> f \in single]] :
        single \in SUBSET HuntFields}
    \cup {[f \in HuntFields \ {"dstAsset"} |->
              [disableExcludeSupport |-> FALSE, isSingleValue |-> FALSE]]}

\* the two nested loops of _rmm_process_path_builder: every path of every
\* platform, in order
RECURSIVE process_paths(_)
process_paths(lists) ==
    IF lists = <<>> THEN <<>> ELSE Head(lists) \o process_paths(Tail(lists))

\* the calls of filter_object_builder made by _build_filters_for_rmm, in
\* order: the field and the list passed as include_values
builder_calls(sig) ==
    (IF is_truthy(sig.executables)
     THEN <<[field |-> "srcProcessPath", values |-> process_paths(sig.executables.items)],
            [field |-> "dstProcessPath", values |-> process_paths(sig.executables.items)]>>
     ELSE <<>>)
    \o (IF is_truthy(sig.domains)
        THEN <<[field |-> "dstAsset", values |-> sig.domains.items]>> ELSE <<>>)
    \o (IF is_truthy(sig.ports)
        THEN <<[field |-> "dstPort", values |-> sig.ports.items]>> ELSE <<>>)

builder_result(c) == filter_object_builder(c.field, List(c.values), List(<<>>))

\* the position of the first call of the builder that raises (0 if none)
first_failure(calls) ==
    IF \E k \in 1..Len(calls) : builder_result(calls[k]).kind = "raise"
    THEN CHOOSE k \in 1..Len(calls) :
            /\ builder_result(calls[k]).kind = "raise"
            /\ \A j \in 1..(k - 1) : builder_result(calls[j]).kind # "raise"
    ELSE 0

\* _build_filters_for_rmm: the filter objects by field id
build_filters_for_rmm(sig) ==
    LET calls == builder_calls(sig) IN
    [f \in {calls[k].field : k \in 1..Len(calls)} |->
        LET k == CHOOSE j \in 1..Len(calls) : calls[j].field = f
        IN  builder_result(calls[k]).value[1]]

\* filter_object_builder replaces the values of the list it is given by
\* their str(): the domains and ports of the signature itself, for the calls
\* that came to the conversion
str_values(field) ==
    [form |-> field.form,
     items |-> [k \in 1..Len(field.items) |-> str_of(field.items[k])]]

converted(sig, field_id, field) ==
    LET calls == builder_calls(sig)
        fail == first_failure(calls)
    IN  IF \E k \in 1..Len(calls) :
              calls[k].field = field_id /\ (fail = 0 \/ k < fail)
        THEN str_values(field)
        ELSE field

signature_after_build(sig) ==
    [executables |-> sig.executables,
     domains |-> converted(sig, "dstAsset", sig.domains),
     ports |-> converted(sig, "dstPort", sig.ports)]

\* list.remove(x): without the first occurrence of x
remove_first(list, x) ==
    IF \E k \in 1..Len(list) : list[k] = x
    THEN LET first == CHOOSE k \in 1..Len(list) :
                         list[k] = x /\ \A j \in 1..(k - 1) : list[j] # x
         IN  SubSeq(list, 1, first - 1) \o SubSeq(list, first + 1, Len(list))
    ELSE list

\* port_validation_list: a copy of the port filter's values, "80" removed
\* if it is in the list, then "443"
port_validation_list(include_values) ==
    remove_first(remove_first(include_values, S("80")), S("443"))

NoFound == [f \in HuntFields |-> 0]

WorkerReturn(sig, counts) ==
    [kind |-> "return", type |-> "None",
     rmm_ports |-> sig.ports,
     has_indicators |-> \E f \in HuntFields : counts[f] > 0,
     executable_activities_discovered |-> counts["srcProcessPath"] + counts["dstProcessPath"],
     domain_activities_discovered |-> counts["dstAsset"],
     port_activities_discovered |-> counts["dstPort"]]
WorkerRaise(type) ==
    [kind |-> "raise", type |-> type, rmm_ports |-> Absent, has_indicators |-> FALSE,
     executable_activities_discovered |-> 0, domain_activities_discovered |-> 0,
     port_activities_discovered |-> 0]
WorkerNone == [WorkerRaise("None") EXCEPT !.kind = "none"]

\* datetime.now() as milliseconds since the epoch: a reading whose digits
\* spell no date, and one whose digits spell 1970-01-02
ClockReadings == {3000, 19700102}

\* execute_hunt: `if not to_timestamp:
\*     to_timestamp = str(self._zero_threat_hunt_tools.datetime_to_timestamp_ms(datetime.now()))`
default_to_timestamp(to_timestamp, now_ms) ==
    IF to_timestamp.k = "absent" THEN DecimalString(str_digits(now_ms)) ELSE to_timestamp

\* the to_timestamp arguments of execute_hunt: given, malformed, not given
ExecuteHuntToTimestamps == {IsoTimestamp(2000), MalformedTimestamp, NoTimestamp}

\* the timestamps a worker is called with: those execute_hunt hands to
\* _start_multithreaded_hunt
HuntTimestamps ==
    {[from_timestamp |-> IsoTimestamp(1000),
      to_timestamp |-> default_to_timestamp(to_timestamp, now_ms),
      limit |-> 0] : to_timestamp \in ExecuteHuntToTimestamps, now_ms \in ClockReadings}

InitWorker ==
    /\ rmm \in RmmSignatures
    /\ timestamps \in HuntTimestamps
    /\ filter_holder = <<>>
    /\ worker_queries = <<>>
    /\ found = NoFound
    /\ worker_pc = "start"
    /\ worker_outcome = WorkerNone

IdleWorker ==
    /\ rmm = [executables |-> Absent, domains |-> Absent, ports |-> Absent]
    /\ timestamps = [from_timestamp |-> NoTimestamp, to_timestamp |-> NoTimestamp, limit |-> 0]
    /\ filter_holder = <<>>
    /\ worker_queries = <<>>
    /\ found = NoFound
    /\ worker_pc = "idle"
    /\ worker_outcome = WorkerNone

\* filter_holder = self._build_filters_for_rmm(rmm=rmm): an exception of the
\* filter builder ends the worker
hunt_builds_filters ==
    /\ worker_pc = "start"
    /\ LET fail == first_failure(builder_calls(rmm)) IN
       IF fail # 0
       THEN /\ worker_pc' = "raised"
            /\ worker_outcome' = WorkerRaise(builder_result(builder_calls(rmm)[fail]).type)
            /\ UNCHANGED filter_holder
       ELSE /\ worker_pc' = "src"
            /\ filter_holder' = build_filters_for_rmm(rmm)
            /\ UNCHANGED worker_outcome
    /\ rmm' = signature_after_build(rmm)
    /\ UNCHANGED <<timestamps, worker_queries, found>>
    /\ UNCHANGED exceptWorker

\* what the requests of one sub-query end with: one of the errors of a
\* query, or this many activities
QueryAnswers ==
    {[raised |-> TRUE, error |-> e, n |-> 0] : e \in QueryErrors}
    \cup {[raised |-> FALSE, error |-> "None", n |-> k] : k \in 0..MaxFound}

\* the call of the facade made for one sub-query
sub_query_call(op, values) ==
    [op |-> op, values |-> values, args |-> timestamps, extra |-> NoExtra]

\* where the worker is after a sub-query raised: no call of _hunt_for_rmm is
\* inside a try, the exception leaves the worker
pc_after_raiseBroken(next) == next
pc_after_raise(next) == "raised"

\* one `if filter_holder.get(field): ... = self._zero_threat_hunt_tools.<op>(...)`:
\* skipped, or the query of the facade, which raises before its request,
\* raises in it, or returns the activities found
sub_query(here, next, field, op, skipped, values) ==
    /\ worker_pc = here
    /\ IF skipped
       THEN /\ worker_pc' = next
            /\ UNCHANGED <<worker_queries, found, worker_outcome>>
       ELSE LET prepared == prepare_query(sub_query_call(op, values)) IN
            IF prepared.kind = "raise"
            THEN /\ worker_pc' = pc_after_raise(next)
                 /\ worker_outcome' = WorkerRaise(prepared.type)
                 /\ UNCHANGED <<worker_queries, found>>
            ELSE /\ worker_queries' = Append(worker_queries, [op |-> op, values |-> values])
                 /\ \E answer \in QueryAnswers :
                       IF answer.raised
                       THEN /\ answer.n = 0
                            /\ worker_pc' = pc_after_raise(next)
                            /\ worker_outcome' = WorkerRaise(answer.error)
                            /\ UNCHANGED found
                       ELSE /\ worker_pc' = next
                            /\ found' = [found EXCEPT ![field] = answer.n]
                            /\ UNCHANGED worker_outcome
    /\ UNCHANGED <<rmm, timestamps, filter_holder>>
    /\ UNCHANGED exceptWorker

include_values_of(field) ==
    IF field \in DOMAIN filter_holder THEN filter_holder[field].includeValues ELSE <<>>

hunt_source_processes ==
    /\ worker_pc = "src"
    /\ sub_query("src", "dst", "srcProcessPath", "get_activities_from_source_processes",
                 "srcProcessPath" \notin DOMAIN filter_holder,
                 include_values_of("srcProcessPath"))

hunt_destination_processes ==
    /\ worker_pc = "dst"
    /\ sub_query("dst", "domains", "dstProcessPath", "get_activities_to_destination_processes",
                 "dstProcessPath" \notin DOMAIN filter_holder,
                 include_values_of("dstProcessPath"))

hunt_domains ==
    /\ worker_pc = "domains"
    /\ sub_query("domains", "ports", "dstAsset", "get_activities_to_domains",
                 "dstAsset" \notin DOMAIN filter_holder,
                 include_values_of("dstAsset"))

\* the port sub-query is also skipped when port_validation_list is empty
hunt_ports ==
    /\ worker_pc = "ports"
    /\ sub_query("ports", "collect", "dstPort", "get_activities_to_destination_ports",
                 \/ "dstPort" \notin DOMAIN filter_holder
                 \/ Len(port_validation_list(include_values_of("dstPort"))) = 0,
                 port_validation_list(include_values_of("dstPort")))

\* the activities found are stored in results, which is returned
hunt_for_rmm_returns ==
    /\ worker_pc = "collect"
    /\ worker_pc' = "returned"
    /\ worker_outcome' = WorkerReturn(rmm, found)
    /\ UNCHANGED <<rmm, timestamps, filter_holder, worker_queries, found>>
    /\ UNCHANGED exceptWorker

(***************************************************************************)
(* ZNHuntOps._prepare_data_for_analysis: filter, deduplicate, resolve the  *)
(* source assets, aggregate                                                *)
(***************************************************************************)
\* the asset ids the activities of the model carry
AssetIds == {"x", "y"}

\* an activity found by a sub-query: its event record id and source asset
FoundActivity(id, asset) ==
    [src |-> [has_eventRecordId |-> TRUE, eventRecordId |-> id, assetId |-> asset]]

\* what one category of a worker's result may hold
FoundLists ==
    {<<>>, <<FoundActivity(1, "x")>>, <<FoundActivity(2, "x")>>, <<FoundActivity(2, "y")>>}

\* what the worker of a signature ended with: an exception, or its results
WorkerFailed == [kind |-> "raise", executable |-> <<>>, domain |-> <<>>, port |-> <<>>]
WorkerOutcomes ==
    {WorkerFailed} \cup
    [kind : {"return"}, executable : FoundLists, domain : FoundLists, port : FoundLists]

\* the entry of results for a signature whose worker returned
HuntResult(sig, outcome) ==
    [rmm_id |-> sig,
     executable_activities_discovered |-> outcome.executable,
     domain_activities_discovered |-> outcome.domain,
     port_activities_discovered |-> outcome.port,
     unique_activities_map |-> <<>>]

\* the orders in which as_completed may hand over the workers in S
CompletionOrders(workers) ==
    {order \in [1..Cardinality(workers) -> workers] :
        \A i, j \in 1..Cardinality(workers) : order[i] = order[j] => i = j}

\* results of _start_multithreaded_hunt: the results of the workers that
\* returned, in the order they completed
HuntResultLists(outcomes) ==
    LET returned == {sig \in DOMAIN outcomes : outcomes[sig].kind = "return"}
    IN  {[k \in 1..Cardinality(returned) |-> HuntResult(order[k], outcomes[order[k]])] :
            order \in CompletionOrders(returned)}

\* the condition of the list comprehension of
\* _filter_results_to_only_include_rmmls_with_indicators
has_discovered_activitiesBroken(result) ==
    /\ Len(result.executable_activities_discovered) > 0
    /\ Len(result.domain_activities_discovered) > 0
    /\ Len(result.port_activities_discovered) > 0

has_discovered_activities(result) ==
    \/ Len(result.executable_activities_discovered) > 0
    \/ Len(result.domain_activities_discovered) > 0
    \/ Len(result.port_activities_discovered) > 0

filter_results_to_only_include_rmmls_with_indicators(list) ==
    SelectSeq(list, has_discovered_activities)

\* the loops of _get_unique_rmml_activities over one list
RECURSIVE add_activities(_, _, _)
add_activities(list, indicator_type, map) ==
    IF list = <<>> THEN map
    ELSE add_activities(Tail(list), indicator_type,
                        is_activity_unique(Head(list), indicator_type, map))

\* _get_unique_rmml_activities: executables, then domains, then ports
get_unique_rmml_activities(result) ==
    add_activities(result.port_activities_discovered, "port",
        add_activities(result.domain_activities_discovered, "domain",
            add_activities(result.executable_activities_discovered, "executable", <<>>)))

\* _aggregate_all_activities_into_list: every unique activity of every
\* entry, with the entry's id and its indicators
RECURSIVE aggregate_all_activities_into_list(_)
aggregate_all_activities_into_list(list) ==
    IF list = <<>> THEN <<>>
    ELSE LET r == Head(list)
             map == r.unique_activities_map
         IN  [k \in 1..Len(map) |->
                 [rmml_id |-> r.rmm_id, activity |-> map[k].activity,
                  indicators |-> map[k].indicators]]
             \o aggregate_all_activities_into_list(Tail(list))

\* a response to GET /assets/{id}; entity_name says what a JSON object body
\* holds under entity.name: a string ("str"), JSON null ("null"), or nothing
\* because the entity or its name is missing ("absent")
AssetResponse(status_code, content, entity_name) ==
    [kind |-> "response", status_code |-> status_code, content |-> content,
     entity_name |-> entity_name]
\* the request ends with an exception of the transport
AssetFailure(e) ==
    [kind |-> "exception", status_code |-> 0, content |-> e, entity_name |-> "absent"]

\* the server's answer to GET /assets/{id}: the asset with its name, with a
\* null name, without entity or name, a 200 whose body is no JSON object,
\* 404 with a JSON object or with another JSON value as body, a server
\* error, a transport that times out on every attempt, a transport that
\* raises another exception
AssetAnswers ==
    {AssetResponse(200, "object", "str"), AssetResponse(200, "object", "null"),
     AssetResponse(200, "object", "absent"), AssetResponse(200, "nonobject", "absent"),
     AssetResponse(404, "object", "absent"), AssetResponse(404, "nonobject", "absent"),
     AssetResponse(500, "object", "absent"),
     AssetFailure("Timeout"), AssetFailure("RequestException")}

\* self._zero_threat_hunt_tools.api.get(endpoint=f"/assets/{asset_id}")
asset_get(asset_id) ==
    IF asset_answers[asset_id].kind = "exception"
    THEN Raise(asset_answers[asset_id].content, 0, NoBody)
    ELSE handle_response(asset_answers[asset_id])

\* `except ZeroNetworksNotFoundError:` the only handler of the lookup
resolve_catches(type) == type = "ZeroNetworksNotFoundError"

\* response.get("entity", {}).get("name", "N/A") of the dict that api.get
\* returned: the name, None (written "None") for a null name, "N/A" when the
\* entity or its name is missing
asset_name(asset_id) ==
    LET answer == asset_answers[asset_id] IN
    IF answer.content = "object" /\ answer.entity_name = "str" THEN "name of " \o asset_id
    ELSE IF answer.content = "object" /\ answer.entity_name = "null" THEN "None"
    ELSE "N/A"

\* api.get(endpoint=f"/assets/{asset_id}").get("entity", {}).get("name", "N/A"):
\* the exception of the request, the AttributeError of .get on a body that is
\* no dict, or the value returned
asset_lookup(asset_id) ==
    LET got == asset_get(asset_id) IN
    IF got.kind = "raise" THEN got
    ELSE IF got.body.py # "dict" THEN Raise("AttributeError", 0, NoBody)
    ELSE got

InitPrepare ==
    /\ hunt_outcomes \in UNION {[1..n -> WorkerOutcomes] : n \in 0..MaxReportSigs}
    /\ hunt_results \in HuntResultLists(hunt_outcomes)
    /\ rmmls = <<>>
    /\ rmml_index = 0
    /\ activity_index = 0
    /\ asset_answers \in [AssetIds -> AssetAnswers]
    /\ asset_id_to_asset_name_map = {}
    /\ asset_requests = <<>>
    /\ src_asset_names = <<>>
    /\ all_indicating_activities = <<>>
    /\ prep_pc = "start"
    /\ prep_error = "None"

IdlePrepare ==
    /\ hunt_outcomes = <<>>
    /\ hunt_results = <<>>
    /\ rmmls = <<>>
    /\ rmml_index = 0
    /\ activity_index = 0
    /\ asset_answers = [a \in AssetIds |-> AssetResponse(200, "object", "str")]
    /\ asset_id_to_asset_name_map = {}
    /\ asset_requests = <<>>
    /\ src_asset_names = <<>>
    /\ all_indicating_activities = <<>>
    /\ prep_pc = "idle"
    /\ prep_error = "None"

\* `for rmml in rmmls:` of _deduplicate_and_decode_rmml_activities: each entry
\* is deduplicated, then decoded; with no entry the aggregation is next
pc_after_filterBroken(n) == "aggregate"
pc_after_filter(n) == IF n = 0 THEN "aggregate" ELSE "dedup"

\* filter_rmmls_with_indicators = self._filter_results_...(results=results)
prepare_filters_results ==
    /\ prep_pc = "start"
    /\ rmmls' = filter_results_to_only_include_rmmls_with_indicators(hunt_results)
    /\ rmml_index' = 1
    /\ prep_pc' = pc_after_filter(Len(rmmls'))
    /\ UNCHANGED <<hunt_outcomes, hunt_results, activity_index, asset_answers,
                   asset_id_to_asset_name_map, asset_requests, src_asset_names,
                   all_indicating_activities, prep_error>>
    /\ UNCHANGED exceptPrepare

\* rmml = self._get_unique_rmml_activities(rmml=rmml)
prepare_deduplicates_rmml ==
    /\ prep_pc = "dedup"
    /\ rmmls' = [rmmls EXCEPT ![rmml_index].unique_activities_map =
                                  get_unique_rmml_activities(rmmls[rmml_index])]
    /\ activity_index' = 1
    /\ prep_pc' = "decode"
    /\ UNCHANGED <<hunt_outcomes, hunt_results, rmml_index, asset_answers,
                   asset_id_to_asset_name_map, asset_requests, src_asset_names,
                   all_indicating_activities, prep_error>>
    /\ UNCHANGED exceptPrepare

\* str(activity.get("activity", {}).get("src", {}).get("assetId", ""))
current_asset_id ==
    rmmls[rmml_index].unique_activities_map[activity_index].activity.src.assetId

\* `asset_id in self.asset_id_to_asset_name_map`
is_cached(asset_id) == \E e \in asset_id_to_asset_name_map : e.id = asset_id
cached_name(asset_id) ==
    (CHOOSE e \in asset_id_to_asset_name_map : e.id = asset_id).name

\* the activity got its srcAssetName: on to the next activity, the next
\* entry of rmmls, or the aggregation
next_activity(name) ==
    /\ src_asset_names' = Append(src_asset_names, [id |-> current_asset_id, name |-> name])
    /\ IF activity_index < Len(rmmls[rmml_index].unique_activities_map)
       THEN /\ activity_index' = activity_index + 1
            /\ UNCHANGED <<rmml_index, prep_pc>>
       ELSE /\ activity_index' = 0
            /\ rmml_index' = rmml_index + 1
            /\ prep_pc' = IF rmml_index < Len(rmmls) THEN "dedup" ELSE "aggregate"
    /\ UNCHANGED <<hunt_outcomes, hunt_results, rmmls, asset_answers,
                   all_indicating_activities, prep_error>>
    /\ UNCHANGED exceptPrepare

\* _resolve_asset_id_to_asset_name: the id is in the cache
resolve_asset_cache_hit ==
    /\ prep_pc = "decode"
    /\ is_cached(current_asset_id)
    /\ next_activity(cached_name(current_asset_id))
    /\ UNCHANGED <<asset_id_to_asset_name_map, asset_requests>>

\* not in the cache: the request returns a dict; the name read from it, or
\* the default "N/A", is stored in the cache and returned
resolve_asset_from_api ==
    /\ prep_pc = "decode"
    /\ ~is_cached(current_asset_id)
    /\ asset_lookup(current_asset_id).kind = "return"
    /\ asset_requests' = Append(asset_requests, current_asset_id)
    /\ asset_id_to_asset_name_map' =
           asset_id_to_asset_name_map
           \cup {[id |-> current_asset_id, name |-> asset_name(current_asset_id)]}
    /\ next_activity(asset_name(current_asset_id))

\* not in the cache: the request raises ZeroNetworksNotFoundError, "N/A" is
\* returned and nothing is stored in the cache
resolve_asset_not_found ==
    /\ prep_pc = "decode"
    /\ ~is_cached(current_asset_id)
    /\ asset_lookup(current_asset_id).kind = "raise"
    /\ resolve_catches(asset_lookup(current_asset_id).type)
    /\ asset_requests' = Append(asset_requests, current_asset_id)
    /\ UNCHANGED asset_id_to_asset_name_map
    /\ next_activity("N/A")

\* not in the cache: any other exception of the request, or the
\* AttributeError of a body that is no dict, leaves the preparation
resolve_asset_raises ==
    /\ prep_pc = "decode"
    /\ ~is_cached(current_asset_id)
    /\ asset_lookup(current_asset_id).kind = "raise"
    /\ ~resolve_catches(asset_lookup(current_asset_id).type)
    /\ asset_requests' = Append(asset_requests, current_asset_id)
    /\ prep_pc' = "raised"
    /\ prep_error' = asset_lookup(current_asset_id).type
    /\ UNCHANGED <<hunt_outcomes, hunt_results, rmmls, rmml_index, activity_index,
                   asset_answers, asset_id_to_asset_name_map, src_asset_names,
                   all_indicating_activities>>
    /\ UNCHANGED exceptPrepare

\* self.all_indicating_activities = self._aggregate_all_activities_into_list(...)
prepare_aggregates ==
    /\ prep_pc = "aggregate"
    /\ all_indicating_activities' = aggregate_all_activities_into_list(rmmls)
    /\ prep_pc' = "done"
    /\ UNCHANGED <<hunt_outcomes, hunt_results, rmmls, rmml_index, activity_index,
                   asset_answers, asset_id_to_asset_name_map, asset_requests,
                   src_asset_names, prep_error>>
    /\ UNCHANGED exceptPrepare

(***************************************************************************)
(* ZeroThreatHuntTools._parse_iso8601_to_timestamp_ms: one call            *)
(***************************************************************************)
\* the suffixes of the strings parsed: Z, offsets, none
Suffixes == {"Z", "+00:00", "", "+05:00", "-05:30"}

\* the ISO8601 strings parsed; the dates are days 0, 1 and 20 after
\* 1970-01-01, which keeps the milliseconds within the integers of the checker
Iso8601Strings ==
    {Iso8601(d, h, mi, sec, sfx) :
        d \in {0, 1, 20}, h \in {0, 12, 23}, mi \in {0, 59}, sec \in {0, 30},
        sfx \in Suffixes}

\* strings of decimal digits: of four, eight and ten digits, the dates
\* 1970-01-02 and 1970-01-21, the 32nd of a month, a 13th month; of eleven
\* and thirteen digits, 1970-01-02 at 23:00 and at 23:45, and a 24th hour
DecimalStrings ==
    {DecimalString(str_digits(n)) : n \in {3000, 19700102, 19700121, 19700132,
                                           19701301, 1970010212}}
    \cup {DecimalString(str_digits(19700102) \o time) :
              time \in {<<9, 2, 3>>, <<1, 2, 3, 4, 5>>, <<1, 2, 4, 0, 0>>}}

InitParse ==
    /\ iso8601_str \in Iso8601Strings \cup {MalformedTimestamp} \cup DecimalStrings
    /\ timestamp_ms = 0
    /\ parse_pc = "call"

IdleParse ==
    /\ iso8601_str = NoTimestamp
    /\ timestamp_ms = 0
    /\ parse_pc = "idle"

\* the try block runs to `return timestamp_ms`
parse_returns ==
    /\ parse_pc = "call"
    /\ ~parse_iso8601_raises(iso8601_str)
    /\ timestamp_ms' = parse_iso8601_to_timestamp_ms(iso8601_str)
    /\ parse_pc' = "returned"
    /\ UNCHANGED iso8601_str
    /\ UNCHANGED exceptParse

\* fromisoformat raises ValueError, re-raised as ValueError
parse_raises ==
    /\ parse_pc = "call"
    /\ parse_iso8601_raises(iso8601_str)
    /\ parse_pc' = "raised"
    /\ UNCHANGED <<iso8601_str, timestamp_ms>>
    /\ UNCHANGED exceptParse

(***************************************************************************)
(* ZNHuntOps: the augmentation of the filter metadata (__init__) and the   *)
(* recursive transformation of an activity                                 *)
(***************************************************************************)
\* a selection of a filter: its id (a string or an integer) and its name
Selection(id, name) == [id |-> id, name |-> name]

\* an entry of the metadata dict as far as the enrichment reads it: whether
\* it has the key "selectionsById", and that dict as a set of selections
MetaEntry(has, selections) == [has_selectionsById |-> has, selectionsById |-> selections]

\* the entries _transform_network_filters_to_dict builds: without selections
\* (no selectionsById key), with string ids, with integer ids
ServerEntries ==
    {MetaEntry(FALSE, {}),
     MetaEntry(TRUE, {Selection(S("6"), "TCP"), Selection(S("17"), "UDP")}),
     MetaEntry(TRUE, {Selection(I(6), "TCP")})}

MetaKeys == {"protocolType", "srcAssetType"}

\* the metadata dicts of a constructed facade
ServerDicts == UNION {[keys -> ServerEntries] : keys \in SUBSET MetaKeys}

\* the contents of the static mapping file: field id -> list of selections
MappingFiles ==
    {Absent,
     Present([k \in {"protocolType"} |-> {Selection(S("6"), "tcp")}]),
     Present([k \in MetaKeys |-> {Selection(S("6"), "six")}])}

\* _load_additional_filter_mappings_if_exists: with the file, the entries of
\* the keys the dict lacks are added; without it, {} is returned
load_additional_filter_mappings_if_exists(filters, file) ==
    IF file.form = "present"
    THEN [k \in DOMAIN filters \cup DOMAIN file.items |->
            IF k \in DOMAIN filters THEN filters[k]
            ELSE MetaEntry(TRUE, file.items[k])]
    ELSE <<>>

\* the mappings file of a hunt: missing, or adding the protocol names
WorkerMappingFiles ==
    {Absent, Present([k \in {"protocolType"} |-> {Selection(S("6"), "tcp")}])}

\* the facade a worker uses, constructed by ZNHuntOps.__init__: its
\* network_filters is replaced by what
\* _load_additional_filter_mappings_if_exists returns, the server's metadata
\* with the additions of the mappings file, or {} when the file does not
\* exist
WorkerFacade ==
    /\ network_filters \in
           {load_additional_filter_mappings_if_exists(server_metadata, file) :
                server_metadata \in HuntMetadata, file \in WorkerMappingFiles}
    /\ fac_pc = "idle"
    /\ fac_call = [op |-> "none"]
    /\ fac_params = NoParams
    /\ fac_outcome = FacNone

\* INCONSISTENT_FIELD_NAME_MAP and _check_for_inconsistent_field_name
check_for_inconsistent_field_name(key) ==
    CASE key = "protocol" -> "protocolType"
      [] key = "networkProtectionState" -> "srcAssetProtectionState"
      [] key = "assetType" -> "srcAssetType"
      [] OTHER -> key

\* _map_id_value_to_human_readable:
\* network_filter.get("selectionsById", {}).get(str(value), value)
map_id_value_to_human_readable(value, key) ==
    LET name == check_for_inconsistent_field_name(key) IN
    IF /\ name \in DOMAIN hunt_network_filters
       /\ hunt_network_filters[name].has_selectionsById
       /\ \E sel \in hunt_network_filters[name].selectionsById : sel.id = str_of(value)
    THEN S((CHOOSE sel \in hunt_network_filters[name].selectionsById :
                sel.id = str_of(value)).name)
    ELSE value

\* the values of an activity: an int or str, a list, a dict of fields in the
\* order of the dict
Field(key, value) == [form |-> "field", value |-> S(key), items |-> <<value>>]
Dict(fields) == [form |-> "dict", value |-> S(""), items |-> fields]

\* _recursively_transform_all_id_values_to_human_readable.  The loop over a
\* list value reads the element at the next index of the list as it is by
\* then: a scalar element is removed (its first equal element) and its
\* mapping appended, a dict element is transformed in place
RECURSIVE recursively_transform(_)
RECURSIVE transform_list(_, _, _)
transform_list(key, list, i) ==
    IF i > Len(list) THEN list
    ELSE LET item == list[i] IN
         IF item.form = "scalar"
         THEN transform_list(
                  key,
                  Append(remove_first(list, item),
                         Scalar(map_id_value_to_human_readable(item.value, key))),
                  i + 1)
         ELSE IF item.form = "dict"
         THEN transform_list(key, [list EXCEPT ![i] = recursively_transform(item)], i + 1)
         ELSE transform_list(key, list, i + 1)

transform_field(field) ==
    LET key == field.value.s
        value == field.items[1]
    IN  IF value.form = "scalar"
        THEN Field(key, Scalar(map_id_value_to_human_readable(value.value, key)))
        ELSE IF value.form = "list"
        THEN Field(key, List(transform_list(key, value.items, 1)))
        ELSE Field(key, recursively_transform(value))

recursively_transform(dict) ==
    Dict([k \in 1..Len(dict.items) |-> transform_field(dict.items[k])])

\* the activities transformed
EnrichScalars == {Scalar(I(6)), Scalar(S("6")), Scalar(I(17)), Scalar(S("x"))}
ScalarLists == UNION {[1..n -> EnrichScalars] : n \in 0..MaxListLen}
FlatValues == EnrichScalars \cup {List(l) : l \in ScalarLists}
ActivityKeys == {"protocol", "protocolType", "state"}
FlatDicts == {Dict(<<Field(k, v)>>) : k \in ActivityKeys, v \in FlatValues}
NestedValues ==
    FlatValues \cup FlatDicts
    \cup {List(<<Scalar(I(6)), d>>) : d \in FlatDicts}
Activities ==
    {Dict(<<Field(k, v)>>) : k \in ActivityKeys \cup {"src"}, v \in NestedValues}
    \cup {Dict(<<Field("protocol", v), Field("state", w)>>) :
             v \in EnrichScalars, w \in EnrichScalars}

InitEnrich ==
    /\ declared_filters \in ServerDicts
    /\ mappings_file \in MappingFiles
    /\ hunt_network_filters = declared_filters
    /\ raw_activity \in Activities
    /\ data = raw_activity
    /\ enrich_pc = "init"

IdleEnrich ==
    /\ declared_filters = <<>>
    /\ mappings_file = Absent
    /\ hunt_network_filters = <<>>
    /\ raw_activity = Dict(<<>>)
    /\ data = Dict(<<>>)
    /\ enrich_pc = "idle"

\* __init__ with the mapping file: network_filters is the merged dict
init_loads_mappings_file ==
    /\ enrich_pc = "init"
    /\ mappings_file.form = "present"
    /\ hunt_network_filters' =
           load_additional_filter_mappings_if_exists(hunt_network_filters, mappings_file)
    /\ enrich_pc' = "ready"
    /\ UNCHANGED <<declared_filters, mappings_file, raw_activity, data>>
    /\ UNCHANGED exceptEnrich

\* __init__ without the mapping file: network_filters is what the loader returns
init_without_mappings_file ==
    /\ enrich_pc = "init"
    /\ ~mappings_file.form = "present"
    /\ hunt_network_filters' =
           load_additional_filter_mappings_if_exists(hunt_network_filters, mappings_file)
    /\ enrich_pc' = "ready"
    /\ UNCHANGED <<declared_filters, mappings_file, raw_activity, data>>
    /\ UNCHANGED exceptEnrich

\* the enrichment of a unique activity: the recursive transformation
transform_activity ==
    /\ enrich_pc = "ready"
    /\ data' = recursively_transform(data)
    /\ enrich_pc' = "done"
    /\ UNCHANGED <<declared_filters, mappings_file, hunt_network_filters, raw_activity>>
    /\ UNCHANGED exceptEnrich

(***************************************************************************)
(* ZNHuntOps.execute_hunt for one signature: the worker, the collection of *)
(* its result by _start_multithreaded_hunt, the preparation                *)
(***************************************************************************)
\* the k-th activity a sub-query found
found_activity(k) == FoundActivity(k, "x")

\* results[...].extend(...): the lists of the worker's result
found_executables ==
    [k \in 1..(found["srcProcessPath"] + found["dstProcessPath"]) |-> found_activity(k)]
found_domains == [k \in 1..found["dstAsset"] |-> found_activity(k)]
found_ports == [k \in 1..found["dstPort"] |-> found_activity(k)]

\* what future.result() gives: the worker's exception, or its result
future_result ==
    IF worker_pc = "raised" THEN WorkerFailed
    ELSE [kind |-> "return", executable |-> found_executables,
          domain |-> found_domains, port |-> found_ports]

\* the server answers every asset request of the hunt alike: with the
\* asset's name, without a name, with 404 (a JSON object or another body), or
\* the transport times out
HuntAssetAnswers ==
    {AssetResponse(200, "object", "str"), AssetResponse(200, "object", "absent"),
     AssetResponse(404, "object", "absent"), AssetResponse(404, "nonobject", "absent"),
     AssetFailure("Timeout")}
UniformAssetAnswers == {[a \in AssetIds |-> r] : r \in HuntAssetAnswers}

\* `for future in as_completed(future_to_rmm)`: the result is appended to
\* results, an exception is logged; then execute_hunt hands results to
\* _prepare_data_for_analysis
hunt_collects_and_prepares ==
    /\ worker_pc \in {"returned", "raised"}
    /\ prep_pc = "idle"
    /\ hunt_outcomes' = <<future_result>>
    /\ hunt_results' \in HuntResultLists(hunt_outcomes')
    /\ asset_answers' \in UniformAssetAnswers
    /\ prep_pc' = "start"
    /\ UNCHANGED <<rmmls, rmml_index, activity_index, asset_id_to_asset_name_map,
                   asset_requests, src_asset_names, all_indicating_activities,
                   prep_error>>
    /\ UNCHANGED exceptPrepare

(***************************************************************************)
(* ZNHuntOps.execute_hunt: the concurrent hunt, then the preparation of    *)
(* its results                                                             *)
(***************************************************************************)
\* what the worker of a signature put in its result: nothing, a domain
\* activity, an activity found as executable and as port
PoolWorkerResults ==
    {[kind |-> "return", executable |-> <<>>, domain |-> <<>>, port |-> <<>>],
     [kind |-> "return", executable |-> <<>>, domain |-> <<FoundActivity(1, "x")>>,
      port |-> <<>>],
     [kind |-> "return", executable |-> <<FoundActivity(2, "x")>>, domain |-> <<>>,
      port |-> <<FoundActivity(2, "x")>>]}

\* the outcomes of the workers of the pool that agree with their futures
PoolOutcomes ==
    {o \in [Signatures -> PoolWorkerResults \cup {WorkerFailed}] :
        \A r \in Signatures : (o[r].kind = "return") <=> (future[r].state = "returned")}

\* hunt_results = self._start_multithreaded_hunt(...);
\* prepared_data = self._prepare_data_for_analysis(results=hunt_results)
execute_hunt_prepares ==
    /\ hunt_pc = "done"
    /\ prep_pc = "idle"
    /\ hunt_outcomes' \in PoolOutcomes
    /\ hunt_results' = [k \in 1..Len(results) |->
                           HuntResult(results[k], hunt_outcomes'[results[k]])]
    /\ asset_answers' \in UniformAssetAnswers
    /\ prep_pc' = "start"
    /\ UNCHANGED <<rmmls, rmml_index, activity_index, asset_id_to_asset_name_map,
                   asset_requests, src_asset_names, all_indicating_activities,
                   prep_error>>
    /\ UNCHANGED exceptPrepare

(***************************************************************************)
(* ZNHuntOps._resolve_asset_id_to_asset_name called concurrently: the      *)
(* cache is a dictionary of the class, shared by every caller              *)
(***************************************************************************)
MaxResolvers == 2
Resolvers == 1..MaxResolvers

Resolution(asset_id, pc, name, returned) ==
    [asset_id |-> asset_id, pc |-> pc, asset_name |-> name, returned |-> returned]

\* self.asset_id_to_asset_name_map[asset_id] = asset_name
dict_storeBroken(map, asset_id, name) ==
    {e \in map : e.id # asset_id} \cup {[id |-> asset_id, name |-> "N/A"]}
dict_store(map, asset_id, name) ==
    {e \in map : e.id # asset_id} \cup {[id |-> asset_id, name |-> name]}

InitResolve ==
    /\ resolutions \in [Resolvers -> {Resolution(a, "call", "", "") : a \in AssetIds}]
    /\ asset_answers \in [AssetIds -> AssetAnswers]
    /\ asset_id_to_asset_name_map = {}
    /\ asset_requests = <<>>
    /\ hunt_outcomes = <<>>
    /\ hunt_results = <<>>
    /\ rmmls = <<>>
    /\ rmml_index = 0
    /\ activity_index = 0
    /\ src_asset_names = <<>>
    /\ all_indicating_activities = <<>>
    /\ prep_pc = "idle"
    /\ prep_error = "None"

IdleResolve == resolutions = [t \in Resolvers |-> Resolution("x", "returned", "", "")]

exceptResolveCache ==
    <<reqVars, pagVars, facVars, huntVars, dedupVars, clientVars, workerVars, parseVars,
      enrichVars, hunt_outcomes, hunt_results, rmmls, rmml_index, activity_index,
      asset_answers, src_asset_names, all_indicating_activities, prep_pc, prep_error>>

\* `if asset_id in self.asset_id_to_asset_name_map: return self...[asset_id]`
resolution_cache_hit(t) ==
    /\ resolutions[t].pc = "call"
    /\ is_cached(resolutions[t].asset_id)
    /\ resolutions' = [resolutions EXCEPT ![t].pc = "returned",
                          ![t].returned = cached_name(resolutions[t].asset_id)]
    /\ UNCHANGED <<asset_id_to_asset_name_map, asset_requests>>
    /\ UNCHANGED exceptResolveCache

\* the id is not in the cache: on to the request
resolution_cache_miss(t) ==
    /\ resolutions[t].pc = "call"
    /\ ~is_cached(resolutions[t].asset_id)
    /\ resolutions' = [resolutions EXCEPT ![t].pc = "get"]
    /\ UNCHANGED <<asset_id_to_asset_name_map, asset_requests>>
    /\ UNCHANGED exceptResolveCache

\* api.get(endpoint=f"/assets/{asset_id}").get("entity", {}).get("name", "N/A")
resolution_gets_name(t) ==
    /\ resolutions[t].pc = "get"
    /\ asset_lookup(resolutions[t].asset_id).kind = "return"
    /\ asset_requests' = Append(asset_requests, resolutions[t].asset_id)
    /\ resolutions' = [resolutions EXCEPT ![t].pc = "store",
                          ![t].asset_name = asset_name(resolutions[t].asset_id)]
    /\ UNCHANGED asset_id_to_asset_name_map
    /\ UNCHANGED exceptResolveCache

\* the fetched name is stored in the cache and returned
resolution_stores(t) ==
    /\ resolutions[t].pc = "store"
    /\ asset_id_to_asset_name_map' =
           dict_store(asset_id_to_asset_name_map, resolutions[t].asset_id,
                      resolutions[t].asset_name)
    /\ resolutions' = [resolutions EXCEPT ![t].pc = "returned",
                          ![t].returned = resolutions[t].asset_name]
    /\ UNCHANGED asset_requests
    /\ UNCHANGED exceptResolveCache

\* the request raises ZeroNetworksNotFoundError: "N/A" is returned
resolution_not_found(t) ==
    /\ resolutions[t].pc = "get"
    /\ asset_lookup(resolutions[t].asset_id).kind = "raise"
    /\ resolve_catches(asset_lookup(resolutions[t].asset_id).type)
    /\ asset_requests' = Append(asset_requests, resolutions[t].asset_id)
    /\ resolutions' = [resolutions EXCEPT ![t].pc = "returned", ![t].returned = "N/A"]
    /\ UNCHANGED asset_id_to_asset_name_map
    /\ UNCHANGED exceptResolveCache

\* any other exception of the request, or the AttributeError of a body that
\* is no dict, leaves the resolution
resolution_raises(t) ==
    /\ resolutions[t].pc = "get"
    /\ asset_lookup(resolutions[t].asset_id).kind = "raise"
    /\ ~resolve_catches(asset_lookup(resolutions[t].asset_id).type)
    /\ asset_requests' = Append(asset_requests, resolutions[t].asset_id)
    /\ resolutions' = [resolutions EXCEPT ![t].pc = "raised"]
    /\ UNCHANGED asset_id_to_asset_name_map
    /\ UNCHANGED exceptResolveCache

resolve_cache_hit == \E t \in Resolvers : resolution_cache_hit(t)
resolve_cache_miss == \E t \in Resolvers : resolution_cache_miss(t)
resolve_gets_name == \E t \in Resolvers : resolution_gets_name(t)
resolve_stores == \E t \in Resolvers : resolution_stores(t)
resolve_not_found == \E t \in Resolvers : resolution_not_found(t)
resolve_raises == \E t \in Resolvers : resolution_raises(t)

(***************************************************************************)
(* Specifications: one per component, the other components idle            *)
(***************************************************************************)
\* one call of _request by a client constructed with any max_retries
InitSpecRequest ==
    InitRequest /\ IdlePaginate /\ IdleFacade /\ IdleHunt /\ IdleDedup /\ IdleClient /\ IdleWorker /\ IdlePrepare /\ IdleParse /\ IdleEnrich /\ IdleResolve

SpecRequest == InitSpecRequest /\ [][NextRequest]_vars

\* one iteration of iter_paginated over any script of pages, with any limit
InitSpecPaginate ==
    /\ IdleRequest
    /\ InitPaginate(Scripts(0..MaxItems, MaxPages), 0..MaxLimit)
    /\ IdleFacade /\ IdleHunt /\ IdleDedup
    /\ IdleClient
    /\ IdleWorker
    /\ IdlePrepare
    /\ IdleParse
    /\ IdleEnrich
    /\ IdleResolve

NextPaginate ==
    \/ iter_paginated_get_raises
    \/ iter_paginated_get_propagates
    \/ iter_paginated_response_not_dict
    \/ iter_paginated_get
    \/ iter_paginated_yield
    \/ iter_paginated_last_page
    \/ iter_paginated_int_cursor
    \/ iter_paginated_short_page
    \/ iter_paginated_next_page

SpecPaginate == InitSpecPaginate /\ [][NextPaginate]_vars

\* one call of the facade, with the pagination of its activities requests
InitSpecFacade ==
    IdleRequest /\ IdlePaginate /\ InitFacade /\ IdleHunt /\ IdleDedup /\ IdleClient /\ IdleWorker /\ IdlePrepare /\ IdleParse /\ IdleEnrich /\ IdleResolve

NextFacade ==
    \/ get_activities_to_domains
    \/ get_activities_from_source_processes
    \/ get_activities_to_destination_processes
    \/ get_activities_to_destination_ports
    \/ get_activities_to_destination_ips
    \/ get_activities
    \/ filter_object_builder_call
    \/ iter_paginated_get_raises
    \/ iter_paginated_get_propagates
    \/ iter_paginated_response_not_dict
    \/ iter_paginated_get
    \/ get_activities_from_api_client_appends
    \/ iter_paginated_last_page
    \/ iter_paginated_int_cursor
    \/ iter_paginated_short_page
    \/ iter_paginated_next_page
    \/ get_activities_from_api_client_returns
    \/ get_activities_from_api_client_raises

SpecFacade == InitSpecFacade /\ [][NextFacade]_vars

\* one concurrent hunt over any number of signatures
InitSpecHunt ==
    IdleRequest /\ IdlePaginate /\ IdleFacade /\ InitHunt /\ IdleDedup /\ IdleClient /\ IdleWorker /\ IdlePrepare /\ IdleParse /\ IdleEnrich /\ IdleResolve

NextHunt ==
    \/ executor_rejects
    \/ executor_created
    \/ submit
    \/ all_submitted
    \/ worker_starts
    \/ worker_returns
    \/ worker_raises
    \/ collect_result
    \/ collect_exception
    \/ hunt_returns

SpecHunt == InitSpecHunt /\ [][NextHunt]_vars

\* the concurrent hunt under fair scheduling: the thread of the hunt goes on
\* with its next step, a free thread of the pool takes a queued signature,
\* and a running worker ends, its HTTP attempts being answered and its
\* queries having finitely many pages
SpecHuntLive ==
    /\ InitSpecHunt
    /\ [][NextHunt]_vars
    /\ WF_vars(executor_created)
    /\ WF_vars(submit)
    /\ WF_vars(all_submitted)
    /\ WF_vars(worker_starts)
    /\ WF_vars(worker_returns \/ worker_raises)
    /\ WF_vars(collect_result)
    /\ WF_vars(collect_exception)
    /\ WF_vars(hunt_returns)

\* the deduplication of one hunt result
InitSpecDedup ==
    IdleRequest /\ IdlePaginate /\ IdleFacade /\ IdleHunt /\ InitDedup /\ IdleClient /\ IdleWorker /\ IdlePrepare /\ IdleParse /\ IdleEnrich /\ IdleResolve

NextDedup ==
    \/ dedup_executable
    \/ dedup_domain
    \/ dedup_port
    \/ get_unique_rmml_activities_returns

SpecDedup == InitSpecDedup /\ [][NextDedup]_vars

\* the construction of one client from any key and any base_url argument
InitSpecClient ==
    IdleRequest /\ IdlePaginate /\ IdleFacade /\ IdleHunt /\ IdleDedup /\ InitClient /\ IdleWorker /\ IdlePrepare /\ IdleParse /\ IdleEnrich /\ IdleResolve

NextClient ==
    \/ init_rejects_empty_key
    \/ init_base_url_from_key
    \/ init_base_url_fallback
    \/ init_extraction_error_propagates

SpecClient == InitSpecClient /\ [][NextClient]_vars

\* one worker: _hunt_for_rmm for any signature
InitSpecWorker ==
    /\ IdleRequest /\ IdlePaginate /\ WorkerFacade /\ IdleHunt /\ IdleDedup
    /\ IdleClient
    /\ InitWorker
    /\ IdlePrepare
    /\ IdleParse
    /\ IdleEnrich
    /\ IdleResolve

NextWorker ==
    \/ hunt_builds_filters
    \/ hunt_source_processes
    \/ hunt_destination_processes
    \/ hunt_domains
    \/ hunt_ports
    \/ hunt_for_rmm_returns

SpecWorker == InitSpecWorker /\ [][NextWorker]_vars

\* the preparation of the results of one hunt
InitSpecPrepare ==
    /\ IdleRequest /\ IdlePaginate /\ IdleFacade /\ IdleHunt /\ IdleDedup
    /\ IdleClient /\ IdleWorker
    /\ InitPrepare
    /\ IdleParse
    /\ IdleEnrich
    /\ IdleResolve

NextPrepare ==
    \/ prepare_filters_results
    \/ prepare_deduplicates_rmml
    \/ resolve_asset_cache_hit
    \/ resolve_asset_from_api
    \/ resolve_asset_not_found
    \/ resolve_asset_raises
    \/ prepare_aggregates

SpecPrepare == InitSpecPrepare /\ [][NextPrepare]_vars

\* one call of _parse_iso8601_to_timestamp_ms with any of the strings
InitSpecParse ==
    /\ IdleRequest
    /\ IdlePaginate
    /\ IdleFacade
    /\ IdleHunt
    /\ IdleDedup
    /\ IdleClient
    /\ IdleWorker
    /\ IdlePrepare
    /\ InitParse
    /\ IdleEnrich
    /\ IdleResolve

NextParse ==
    \/ parse_returns
    \/ parse_raises

SpecParse == InitSpecParse /\ [][NextParse]_vars

\* the construction of ZNHuntOps over a constructed facade, then the
\* enrichment of one activity
InitSpecEnrich ==
    /\ IdleRequest
    /\ IdlePaginate
    /\ IdleFacade
    /\ IdleHunt
    /\ IdleDedup
    /\ IdleClient
    /\ IdleWorker
    /\ IdlePrepare
    /\ IdleParse
    /\ InitEnrich
    /\ IdleResolve

NextEnrich ==
    \/ init_loads_mappings_file
    \/ init_without_mappings_file
    \/ transform_activity

SpecEnrich == InitSpecEnrich /\ [][NextEnrich]_vars

\* execute_hunt over one signature: its worker, then the preparation
InitSpecLifecycle ==
    /\ IdleRequest
    /\ IdlePaginate
    /\ WorkerFacade
    /\ IdleHunt
    /\ IdleDedup
    /\ IdleClient
    /\ InitWorker
    /\ IdlePrepare
    /\ IdleParse
    /\ IdleEnrich
    /\ IdleResolve

NextLifecycle ==
    \/ hunt_builds_filters
    \/ hunt_source_processes
    \/ hunt_destination_processes
    \/ hunt_domains
    \/ hunt_ports
    \/ hunt_for_rmm_returns
    \/ hunt_collects_and_prepares
    \/ prepare_filters_results
    \/ prepare_deduplicates_rmml
    \/ resolve_asset_cache_hit
    \/ resolve_asset_from_api
    \/ resolve_asset_not_found
    \/ resolve_asset_raises
    \/ prepare_aggregates

SpecLifecycle == InitSpecLifecycle /\ [][NextLifecycle]_vars

\* execute_hunt: the pool of workers, then the preparation
InitSpecExecute ==
    /\ IdleRequest
    /\ IdlePaginate
    /\ IdleFacade
    /\ InitHunt
    /\ IdleDedup
    /\ IdleClient
    /\ IdleWorker
    /\ IdlePrepare
    /\ IdleParse
    /\ IdleEnrich
    /\ IdleResolve

NextExecute ==
    \/ executor_rejects
    \/ executor_created
    \/ submit
    \/ all_submitted
    \/ worker_starts
    \/ worker_returns
    \/ worker_raises
    \/ collect_result
    \/ collect_exception
    \/ hunt_returns
    \/ execute_hunt_prepares
    \/ prepare_filters_results
    \/ prepare_deduplicates_rmml
    \/ resolve_asset_cache_hit
    \/ resolve_asset_from_api
    \/ resolve_asset_not_found
    \/ resolve_asset_raises
    \/ prepare_aggregates

SpecExecute == InitSpecExecute /\ [][NextExecute]_vars

\* concurrent resolutions of asset ids
InitSpecResolve ==
    /\ IdleRequest
    /\ IdlePaginate
    /\ IdleFacade
    /\ IdleHunt
    /\ IdleDedup
    /\ IdleClient
    /\ IdleWorker
    /\ InitResolve
    /\ IdleParse
    /\ IdleEnrich

NextResolve ==
    \/ resolve_cache_hit
    \/ resolve_cache_miss
    \/ resolve_gets_name
    \/ resolve_stores
    \/ resolve_not_found
    \/ resolve_raises

SpecResolve == InitSpecResolve /\ [][NextResolve]_vars

(***************************************************************************)
(* Properties of iter_paginated                                            *)
(***************************************************************************)
\* the items of the first k pages of the script, in page order
RECURSIVE ItemsOfPages(_)
ItemsOfPages(k) ==
    IF k = 0 THEN <<>> ELSE ItemsOfPages(k - 1) \o page_items(k, pages[k])

\* every page is a JSON object with a list of items; every page but the last
\* carries a non-empty cursor, a string or an integer, and the last carries
\* none
ChainOfPages ==
    /\ \A i \in 1..Len(pages) : pages[i].kind = "ok" /\ pages[i].is_list
    /\ \A i \in 1..(Len(pages) - 1) : pages[i].cursor \notin {"none", "empty"}
    /\ pages[Len(pages)].cursor = "none"

\* what the generator has handed over when its last request was the i-th:
\* the items of the pages before it and, while it is inside the i-th page,
\* the first item_index items of that page, else the whole page
YieldedUpTo(i) ==
    IF pag_pc = "items"
    THEN ItemsOfPages(i - 1) \o SubSeq(page_items(i, pages[i]), 1, item_index)
    ELSE ItemsOfPages(i)

\* C1: for a finite sequence of pages in which every page but the last
\* carries a non-empty cursor and the last carries none, and for any limit,
\* iter_paginated terminates, it does not end with an exception, and it has
\* then yielded exactly the concatenation of all pages' items in page order.
C1_ConcatenationAnyLimit ==
    (ChainOfPages /\ pag_pc \in {"done", "raised"})
        => (pag_pc = "done" /\ yielded = ItemsOfPages(Len(pages)))

\* C4: with a limit set, once a page with fewer items than the limit and a
\* non-empty cursor was received, that page's request is the last: the
\* generator hands over the items of that page and ends, having yielded the
\* items of the pages up to that one.
C4_ShortPageStops ==
    \A i \in 1..Len(get_log) :
        (/\ i <= Len(pages)
         /\ pages[i].kind = "ok"
         /\ pages[i].cursor = "str"
         /\ limit # 0
         /\ Len(page_items(i, pages[i])) < limit)
        => /\ pag_pc \in {"items", "done"}
           /\ Len(get_log) = i
           /\ yielded = YieldedUpTo(i)

\* the second of three scripted pages had 1 item for limit 2 and a cursor
C4_Witness ==
    /\ Len(pages) = 3 /\ limit = 2
    /\ pages[1].kind = "ok" /\ pages[1].n = 2
    /\ pages[2].kind = "ok" /\ pages[2].is_list /\ pages[2].n = 1
    /\ pages[2].cursor = "str"
    /\ Len(get_log) = 2 /\ pag_pc = "done" /\ Len(yielded) = 3

\* C36: iter_paginated never requests the same cursor twice, so that a
\* server that keeps answering full pages with a cursor it already gave
\* cannot keep the iteration going.
C36_NoCursorRequestedTwice ==
    \A i, j \in 1..Len(get_log) :
        i < j => get_log[i]._cursor # get_log[j]._cursor

\* C38: a page whose cursor field holds a non-zero integer is handled like
\* one with a string cursor: the iteration does not fail on it, it goes on
\* unless the page is shorter than the limit, and the request after it
\* carries that integer as _cursor.
C38_IntegerCursorContinues ==
    \A i \in 1..Len(get_log) :
        (ServerPage(i).kind = "ok" /\ ServerPage(i).cursor = "int") =>
            /\ ~(pag_pc = "raised" /\ pag_error = "TypeError")
            /\ (i = Len(get_log) /\ pag_pc # "items") =>
                   IF short_page(limit, Len(page_items(i, ServerPage(i))))
                   THEN pag_pc = "done" ELSE pag_pc = "loop"
            /\ i < Len(get_log) =>
                   get_log[i + 1]._cursor = cursor_value(i, ServerPage(i))

\* C23: the first request of iter_paginated carries no _cursor parameter,
\* every later request carries as _cursor exactly the cursor value of the
\* response before it, and the other query parameters of every request are
\* those of the first request.
C23_CursorOfPrecedingResponse ==
    \A i \in 1..Len(get_log) :
        /\ i = 1 => get_log[i]._cursor = AbsentCursor
        /\ i > 1 => get_log[i]._cursor = cursor_value(i - 1, ServerPage(i - 1))
        /\ get_log[i].rest = get_log[1].rest

\* three requests were issued for a caller with parameters of its own
C23_Witness ==
    /\ Len(get_log) = 3
    /\ get_log[1].rest.from = 1000
    /\ get_log[3]._cursor = [t |-> "str", v |-> 3]
    /\ pag_pc = "done"

\* the filters of a request hold one on the field with every one of the values
FilterOn(params, field_name, values) ==
    /\ params.has_filters
    /\ \E k \in 1..Len(params._filters) :
           /\ params._filters[k].id = field_name
           /\ \A j \in 1..Len(values) :
                  \E l \in 1..Len(params._filters[k].includeValues) :
                      params._filters[k].includeValues[l] = str_of(values[j])

\* C24: every request issued by a semantic query operation carries a
\* _filters parameter with a filter on the field of the operation holding
\* the caller's values; no such operation issues an unfiltered request,
\* whatever the cached filter metadata contains.
C24_SemanticQueryIsFiltered ==
    fac_call.op \in SemanticOps =>
        \A i \in 1..Len(get_log) :
            FilterOn(get_log[i].rest, op_field(fac_call.op), fac_call.values)

\* a request of the query was answered with an error
RequestFailed == \E i \in 1..Len(get_log) : ServerPage(i).kind # "ok"

\* C35: a query that returns returns the items of every page it requested,
\* and none of its requests failed; a query that was left by an error of a
\* page request raises that error and hands no list to the caller.
C35_CompleteListOrRaise ==
    (fac_call.op \in SemanticOps \cup {"get_activities"}) =>
        /\ fac_pc = "returned" =>
               /\ fac_outcome.kind = "return"
               /\ ~RequestFailed
               /\ pag_pc = "done"
               /\ fac_outcome.value = ItemsOfPages(Len(get_log))
        /\ (pag_pc = "raised" /\ fac_pc # "fetching") =>
               /\ fac_pc = "raised"
               /\ fac_outcome.kind = "raise"
               /\ fac_outcome.type = pag_error
               /\ fac_outcome.value = <<>>

\* the second page request failed after a full first page was fetched
C35_Witness ==
    /\ Len(get_log) = 2
    /\ ServerPage(1).kind = "ok" /\ Len(yielded) = DefaultLimit
    /\ ServerPage(2).kind = "error"
    /\ fac_pc = "raised"
    /\ fac_outcome.kind = "raise"

(***************************************************************************)
(* Properties of the filter builder and of the query operations            *)
(***************************************************************************)
\* the metadata of the field sets the flag
MetadataSets(field_name, flag) ==
    field_name \in DOMAIN network_filters /\ network_filters[field_name][flag]

\* the filter object is one filter_object_builder lets through under the
\* cached metadata
WellFormedFilter(f) ==
    /\ Len(f.includeValues) > 0 \/ Len(f.excludeValues) > 0
    /\ \A k \in 1..Len(f.includeValues) : f.includeValues[k].t = "str"
    /\ \A k \in 1..Len(f.excludeValues) : f.excludeValues[k].t = "str"
    /\ MetadataSets(f.id, "disableExcludeSupport") => Len(f.excludeValues) = 0
    /\ MetadataSets(f.id, "isSingleValue") => Len(f.includeValues) <= 1

\* C34: every filter object in the _filters parameter of a request has
\* include or exclude values, holds only strings, has no exclude values when
\* its field is marked disableExcludeSupport and at most one include value
\* when its field is marked isSingleValue.
C34_RequestFiltersWellFormed ==
    \A i \in 1..Len(get_log) :
        get_log[i].rest.has_filters =>
            \A k \in 1..Len(get_log[i].rest._filters) :
                WellFormedFilter(get_log[i].rest._filters[k])

\* a request of the ports operation, called with an integer port, went out
\* with a filter of exclude values and with a filter of one include value on
\* a single-value field
C34_Witness ==
    /\ Len(get_log) >= 1
    /\ get_log[1].rest.has_filters
    /\ \E k \in 1..Len(get_log[1].rest._filters) :
           Len(get_log[1].rest._filters[k].excludeValues) > 0
    /\ \E k \in 1..Len(get_log[1].rest._filters) :
           /\ MetadataSets(get_log[1].rest._filters[k].id, "isSingleValue")
           /\ Len(get_log[1].rest._filters[k].includeValues) = 1
    /\ fac_call.op = "get_activities_to_destination_ports"
    /\ \E j \in 1..Len(fac_call.values) : fac_call.values[j].t = "int"

\* C6: the filter builder raises invalid-filter exactly when (a) include and
\* exclude are both empty, or (b) exclude is non-empty and the field's
\* metadata sets disableExcludeSupport, or (c) include has more than one
\* value and the metadata sets isSingleValue; the error is that of the first
\* of (a), (b), (c) that applies, and in every other case, a field without
\* metadata included, a filter object for the field with the caller's
\* include and exclude values is returned. Stated of the direct call, which
\* takes any field; a query hands the builder only fields of the metadata.
C6_BuilderRaisesExactlyWhen ==
    (fac_call.op = "filter_object_builder" /\ fac_pc # "called") =>
        LET inc == to_list(fac_call.include_values)
            exc == to_list(fac_call.exclude_values)
            a == Len(inc) = 0 /\ Len(exc) = 0
            b == Len(exc) > 0 /\ MetadataSets(fac_call.field_name, "disableExcludeSupport")
            c == Len(inc) > 1 /\ MetadataSets(fac_call.field_name, "isSingleValue")
        IN  IF a \/ b \/ c
            THEN /\ fac_outcome.kind = "raise"
                 /\ fac_outcome.type = "ZeroThreatHuntInvalidFilter"
                 /\ fac_outcome.reason = IF a THEN "empty"
                                         ELSE IF b THEN "exclude" ELSE "single"
            ELSE /\ fac_outcome.kind = "return"
                 /\ fac_outcome.value[1].id = fac_call.field_name
                 /\ Len(fac_outcome.value[1].includeValues) = Len(inc)
                 /\ Len(fac_outcome.value[1].excludeValues) = Len(exc)

\* C7: a semantic query operation called with an empty value list (and no
\* other filter argument, timestamps absent or well formed) raises an
\* invalid-filter or invalid-value error and issues no request.
C7_EmptyListRaises ==
    (/\ fac_call.op \in SemanticOps
     /\ fac_pc # "called"
     /\ fac_call.values = <<>>
     /\ fac_call.extra.form = "none"
     /\ ~parse_kwargs_for_params_raises(fac_call.args))
    => /\ fac_pc = "raised"
       /\ fac_outcome.type \in {"ZeroThreatHuntInvalidFilter", "ZeroThreatHuntInvalidValues"}
       /\ Len(get_log) = 0

\* C8: a query that has failed with an invalid-value, invalid-filter or
\* timestamp-format error has issued no request.
C8_ValidationBeforeRequest ==
    (/\ fac_call.op \in SemanticOps \cup {"get_activities"}
     /\ fac_pc = "raised"
     /\ fac_outcome.type \in {"ZeroThreatHuntInvalidValues",
                              "ZeroThreatHuntInvalidFilter", "ValueError"})
    => /\ Len(get_log) = 0
       /\ pag_pc = "idle"

\* two well-formed domains were refused by the single-value check of the
\* filter builder, the last of the validations, before any request
C8_Witness ==
    /\ fac_call.op = "get_activities_to_domains"
    /\ Len(fac_call.values) = 2
    /\ fac_call.args.from_timestamp.k = "iso"
    /\ fac_pc = "raised"
    /\ fac_outcome.type = "ZeroThreatHuntInvalidFilter"
    /\ fac_outcome.reason = "single"
    /\ Len(get_log) = 0

\* an integer port outside 1..65535 is somewhere in the list
HasPortOutOfRange(ports) ==
    \E k \in 1..Len(ports) :
        ports[k].t = "int" /\ (ports[k].i < 1 \/ ports[k].i > 65535)

\* every element of the list is an integer in 1..65535
AllPortsInRange(ports) ==
    \A k \in 1..Len(ports) :
        ports[k].t = "int" /\ ports[k].i >= 1 /\ ports[k].i <= 65535

\* C14: get_activities_to_destination_ports raises invalid-value, without a
\* request, when some port of the list is below 1 or above 65535, and never
\* raises invalid-value for a list whose ports are all integers in 1..65535
\* (1 and 65535 included).
C14_PortRange ==
    (fac_call.op = "get_activities_to_destination_ports" /\ fac_pc # "called") =>
        /\ HasPortOutOfRange(fac_call.values) =>
               /\ fac_pc = "raised"
               /\ fac_outcome.type = "ZeroThreatHuntInvalidValues"
               /\ Len(get_log) = 0
               /\ pag_pc = "idle"
        /\ AllPortsInRange(fac_call.values) =>
               ~(fac_pc = "raised" /\ fac_outcome.type = "ZeroThreatHuntInvalidValues")

\* the query for the ports [1, 65535] went through to its request and
\* returned the activities
C14_Witness ==
    /\ fac_call.op = "get_activities_to_destination_ports"
    /\ fac_call.values = <<I(1), I(65535)>>
    /\ fac_pc = "returned"
    /\ Len(get_log) >= 1

\* the element of the wrong type: a domain, process path or IP address that
\* is not a str, a port that is not an int
HasWrongType(op, values) ==
    \E k \in 1..Len(values) :
        IF op = "get_activities_to_destination_ports"
        THEN values[k].t # "int"
        ELSE values[k].t # "str"

\* C15: a semantic query whose list holds an element of the wrong type,
\* anywhere in the list, raises invalid-value and issues no request.
C15_WrongTypeRejected ==
    (/\ fac_call.op \in SemanticOps
     /\ fac_pc # "called"
     /\ HasWrongType(fac_call.op, fac_call.values)) =>
        /\ fac_pc = "raised"
        /\ fac_outcome.type = "ZeroThreatHuntInvalidValues"
        /\ Len(get_log) = 0

\* C16: the page size sent in every page request of a facade query is the
\* caller's limit when one is passed and 100 otherwise, and the short-page
\* check of the iteration compares with the same value.
C16_PageSizeIsCallersLimit ==
    (/\ fac_call.op \in SemanticOps \cup {"get_activities"}
     /\ Len(get_log) >= 1) =>
        LET page_size == IF fac_call.args.limit # 0
                         THEN fac_call.args.limit
                         ELSE DefaultPageSize
        IN  /\ query_params_limit = page_size
            /\ limit = page_size

(***************************************************************************)
(* Properties of _request and _handle_response                             *)
(***************************************************************************)
IsTransportFailure(o) == o.kind = "exception" /\ o.content \in RetriedExceptions

FailuresOnly(log) == \A i \in 1..Len(log) : IsTransportFailure(log[i])

\* C2: with max_retries = n >= 1, k < n transport failures followed by a 200
\* response make the call return that response after exactly k+1 attempts,
\* and n transport failures make it raise the last of them after exactly n
\* attempts; after fewer than n failures the call is still trying.
C2_RetryCount ==
    LET n == max_retries
        len == Len(transport_log)
        last == transport_log[len]
    IN  n >= 1 =>
        /\ session_calls = len /\ len <= n
        /\ (len >= 1 /\ FailuresOnly(SubSeq(transport_log, 1, len - 1))
              /\ last.kind = "response" /\ last.status_code = 200)
           => /\ req_pc = "returned"
              /\ req_outcome = Return(response_body(last.content))
              /\ session_calls = (len - 1) + 1
        /\ (FailuresOnly(transport_log) /\ len = n)
           => /\ req_pc = "raised"
              /\ req_outcome = Raise(last.content, 0, NoBody)
              /\ session_calls = n
        /\ (FailuresOnly(transport_log) /\ len < n) => req_pc = "loop"

\* two failures, then a 200 response on the third and last attempt
C2_Witness ==
    /\ max_retries = 3 /\ Len(transport_log) = 3
    /\ IsTransportFailure(transport_log[1]) /\ IsTransportFailure(transport_log[2])
    /\ transport_log[3].kind = "response" /\ transport_log[3].status_code = 200
    /\ req_pc = "returned" /\ session_calls = 3

\* C3: a response with an error status ends the request at once, whatever
\* attempts remain and whatever failed before it: it is the last thing the
\* transport was asked for, and the call has raised the API error that the
\* status maps to, carrying that status.
C3_ErrorStatusNotRetried ==
    \A i \in 1..Len(transport_log) :
        (transport_log[i].kind = "response" /\ transport_log[i].status_code >= 400)
        => /\ i = Len(transport_log)
           /\ session_calls = i
           /\ req_pc = "raised"
           /\ req_outcome.kind = "raise"
           /\ req_outcome.type = error_class_of(transport_log[i].status_code)
           /\ req_outcome.status_code = transport_log[i].status_code

\* C10: a response with an error status raises the error type of its status
\* (400 bad request, 401 authentication, 403 authorization, 404 not found,
\* 500 and above server error, any other the generic API error), and the
\* error carries the status code and the parsed body.
C10_StatusMapping ==
    \A i \in 1..Len(transport_log) :
        LET o == transport_log[i]
            expected ==
                CASE o.status_code = 400 -> "ZeroNetworksBadRequestError"
                  [] o.status_code = 401 -> "ZeroNetworksAuthenticationError"
                  [] o.status_code = 403 -> "ZeroNetworksAuthorizationError"
                  [] o.status_code = 404 -> "ZeroNetworksNotFoundError"
                  [] o.status_code >= 500 -> "ZeroNetworksServerError"
                  [] OTHER -> "ZeroNetworksAPIError"
        IN  (o.kind = "response" /\ o.status_code >= 400)
            => /\ req_outcome.kind = "raise"
               /\ req_outcome.type = expected
               /\ req_outcome.status_code = o.status_code
               /\ req_outcome.body = response_body(o.content)

\* C11: a request raises an API error exactly when the response status is
\* outside 2xx: a response with a status in 200..299 (body a JSON object,
\* text or empty) makes the call return the parsed body, any other status
\* makes it raise an API error.
C11_RaisesIffNot2xx ==
    \A i \in 1..Len(transport_log) :
        LET o == transport_log[i] IN
        (o.kind = "response" /\ o.content # "nonobject") =>
            IF o.status_code >= 200 /\ o.status_code <= 299
            THEN /\ req_pc = "returned"
                 /\ req_outcome = Return(response_body(o.content))
            ELSE /\ req_pc = "raised"
                 /\ req_outcome.type \in APIErrorClasses

\* C37: for every max_retries, 0 included, a request that ended has made at
\* least one attempt, and it returned the body of a response or raised; it
\* never returns without having sent the request.
C37_NoCompletionWithoutAttempt ==
    req_pc \in {"returned", "raised"} =>
        /\ session_calls >= 1
        /\ req_outcome.kind \in {"return", "raise"}
        /\ req_pc = "returned" =>
               \E r \in Responses : /\ handle_response(r).kind = "return"
                                    /\ req_outcome = handle_response(r)

(***************************************************************************)
(* Properties of the concurrent hunt                                       *)
(***************************************************************************)
\* how often the signature's result is in the list
Occurrences(list, r) == Cardinality({k \in 1..Len(list) : list[k] = r})

\* C5: no worker's exception leaves the hunt; every future the loop has
\* handled has its result in the list exactly once if its worker returned and
\* not at all if it raised; and the finished hunt has handled every
\* signature, so its results are those of the workers that returned.
C5_OneResultPerReturnedWorker ==
    /\ hunt_pc # "raised"
    /\ \A r \in collected :
        Occurrences(results, r) = IF future[r].state = "returned" THEN 1 ELSE 0
    /\ \A r \in Signatures \ collected : Occurrences(results, r) = 0
    /\ hunt_pc = "done" =>
        /\ collected = Signatures
        /\ \A r \in Signatures : future[r].state \in {"returned", "raised"}
        /\ Len(results) = Cardinality({r \in Signatures : future[r].state = "returned"})

\* of three signatures the first one's worker raised and the hunt finished
\* with the results of the other two
C5_Witness ==
    /\ rmm_count = 3
    /\ hunt_pc = "done"
    /\ future[1].state = "raised"
    /\ Len(results) = 2
    /\ Len(logged_failures) = 1

\* C31: at no time are more than max_workers signatures being hunted, and
\* each signature of the list is submitted to the pool once: the signatures
\* submitted are the first `submitted` of the list, all of them once the
\* collection has begun.
C31_AtMostMaxWorkersRunning ==
    /\ Cardinality(RunningWorkers) <= max_workers
    /\ \A r \in Signatures : (future[r].state # "unsubmitted") <=> (r <= submitted)
    /\ hunt_pc \in {"collecting", "done"} => submitted = rmm_count

\* three signatures on a pool of two threads: two are being hunted, the
\* third waits in the queue
C31_Witness ==
    /\ rmm_count = 3 /\ max_workers = 2
    /\ Cardinality(RunningWorkers) = 2
    /\ \E r \in Signatures : future[r].state = "pending"
    /\ hunt_pc = "collecting"

\* the hunt is over and every signature is either among the results or
\* among the logged failures
HuntFinished ==
    /\ hunt_pc = "done"
    /\ \A r \in Signatures :
           Occurrences(results, r) + Occurrences(logged_failures, r) = 1

\* C40: for any number of signatures and max_workers >= 1, under fair
\* scheduling of the hunt's thread and of the pool and with workers that
\* end, the hunt eventually finishes with every signature either collected
\* as a result or logged as failed.
C40_HuntEventuallyFinishes == (max_workers >= 1) => <>HuntFinished

\* three signatures went through a pool of one thread, one of them failed
C40_Witness ==
    /\ rmm_count = 3
    /\ max_workers = 1
    /\ HuntFinished
    /\ Len(logged_failures) = 1
    /\ Len(results) = 2

(***************************************************************************)
(* Properties of the deduplication                                         *)
(***************************************************************************)
\* the activities of a category's list that carry the event record id
WithId(category, id) ==
    {k \in 1..Len(rmml[category]) :
        /\ rmml[category][k].src.has_eventRecordId
        /\ rmml[category][k].src.eventRecordId = id}

CategorySet == {Categories[k] : k \in 1..3}

\* C9: when the deduplication of a hunt result is done, each event record id
\* that occurs in its executable, domain or port activities has exactly one
\* entry in the map, whose indicators are exactly the categories in which an
\* activity with that id occurs; an id that does not occur has no entry.
C9_OneEntryPerEventRecordId ==
    dedup_pc = "done" =>
        \A id \in EventIds :
            LET occurs == {c \in CategorySet : WithId(c, id) # {}}
                entries == {k \in 1..Len(unique_activities_map) :
                               unique_activities_map[k].key = ToString(id)}
            IN  /\ Cardinality(entries) = IF occurs = {} THEN 0 ELSE 1
                /\ \A k \in entries :
                    /\ unique_activities_map[k].indicators = occurs
                    /\ unique_activities_map[k].activity.src.eventRecordId = id

\* the same event record id was matched as a domain and as a port activity,
\* and another id as an executable: two entries, one with both indicators
C9_Witness ==
    /\ dedup_pc = "done"
    /\ WithId("domain", 1) # {} /\ WithId("port", 1) # {} /\ WithId("executable", 1) = {}
    /\ WithId("executable", 2) # {}
    /\ \E k \in 1..Len(unique_activities_map) :
        /\ unique_activities_map[k].key = "1"
        /\ unique_activities_map[k].indicators = {"domain", "port"}

\* C25: two activities are merged only when both carry the same
\* src.eventRecordId: when the deduplication is done, every activity without
\* an eventRecordId is the activity of an entry of its own, none is lost.
C25_NoIdNeverCollapsed ==
    dedup_pc = "done" =>
        \A c \in CategorySet : \A k \in 1..Len(rmml[c]) :
            ~rmml[c][k].src.has_eventRecordId =>
                \E e \in 1..Len(unique_activities_map) :
                    unique_activities_map[e].activity = rmml[c][k]

(***************************************************************************)
(* Properties of the client's construction                                 *)
(***************************************************************************)
\* the keys the base URL cannot be extracted from: wrong number of segments,
\* undecodable payload, payload that is not a JSON object, aud absent or not
\* a string
CannotExtract(key) ==
    \/ key.segments # 3
    \/ key.payload \in UndecodablePayloads
    \/ key.payload \in NonObjectPayloads
    \/ key.aud.t # "str"

\* the keys that decode to a valid audience claim
HasValidAud(key) ==
    /\ key.segments = 3
    /\ key.payload = "object"
    /\ key.aud.t = "str"
    /\ strip(key.aud.s) # ""

\* C12: constructing the client with a non-empty key never raises because of
\* the key's content: once __init__ has ended it has constructed the client,
\* and when the base URL cannot be extracted from the key the client has the
\* caller's base URL if one was given, else the hard-coded default.
C12_KeyContentNeverRaises ==
    (init_pc \in {"constructed", "raised"} /\ ~key_is_empty(api_key)) =>
        /\ init_pc = "constructed"
        /\ CannotExtract(api_key) =>
               self_base_url = IF str_is_truthy(base_url)
                               THEN strip(base_url)
                               ELSE DEFAULT_BASE_URL

\* C13: the explicit override comes first: a client constructed with a base
\* URL supplied by the caller and a key that decodes to a valid audience
\* claim uses the caller's base URL.
C13_ExplicitOverrideWins ==
    (/\ init_pc = "constructed"
     /\ str_is_truthy(base_url) /\ strip(base_url) # ""
     /\ HasValidAud(api_key)) =>
        self_base_url = strip(base_url)

(***************************************************************************)
(* Properties of the worker of one signature                               *)
(***************************************************************************)
\* the values of the sub-queries issued by operation op
QueriedValues(op) ==
    {worker_queries[k].values : k \in {j \in 1..Len(worker_queries) :
                                           worker_queries[j].op = op}}

\* port 80 or 443, as an int or as its str()
CommonPorts == {I(80), I(443), S("80"), S("443")}

\* C17: the port sub-query of a signature never includes port 80 or port
\* 443, whatever the signature's port list, and no port sub-query is issued
\* when the list holds no other port.
C17_CommonPortsNeverQueried ==
    /\ \A values \in QueriedValues("get_activities_to_destination_ports") :
           \A k \in 1..Len(values) : values[k] \notin CommonPorts
    /\ (\A k \in 1..Len(rmm.ports.items) : rmm.ports.items[k] \in CommonPorts)
           => QueriedValues("get_activities_to_destination_ports") = {}

\* a signature's field that gives nothing to search for: absent, empty, or
\* (executables) every platform's list empty
HasNone(field_id, sig) ==
    CASE field_id = "executables" ->
             \/ ~is_truthy(sig.executables)
             \/ process_paths(sig.executables.items) = <<>>
      [] field_id = "domains" -> ~is_truthy(sig.domains)
      [] field_id = "ports" -> ~is_truthy(sig.ports)

\* the signature has at most one path, one domain and one port, so that no
\* filter is refused for holding several values
AtMostOneValueEach(sig) ==
    /\ Len(process_paths(sig.executables.items)) <= 1
    /\ Len(sig.domains.items) <= 1
    /\ Len(sig.ports.items) <= 1

\* every port of the signature is a port number
PortsAreValid(sig) ==
    values_are_valid("get_activities_to_destination_ports", sig.ports.items)

\* C18: a signature without executables (absent, empty map, or every
\* platform's list empty), without domains or without ports skips only the
\* sub-queries of that field: its worker fails only when a request fails,
\* and a worker that returned has issued the sub-queries of the fields the
\* signature has, and no other.
C18_MissingFieldSkipsOnly ==
    (/\ worker_pc \in {"returned", "raised"}
     /\ AtMostOneValueEach(rmm)
     /\ PortsAreValid(rmm)
     /\ timestamps.to_timestamp.k = "iso") =>
        /\ worker_pc = "raised" => worker_outcome.type \in QueryErrors
        /\ worker_pc = "returned" =>
              /\ HasNone("executables", rmm) <=>
                     QueriedValues("get_activities_from_source_processes") = {}
              /\ HasNone("executables", rmm) <=>
                     QueriedValues("get_activities_to_destination_processes") = {}
              /\ HasNone("domains", rmm) <=>
                     QueriedValues("get_activities_to_domains") = {}
              /\ HasNone("ports", rmm) =>
                     QueriedValues("get_activities_to_destination_ports") = {}

\* C26: a hunt leaves the signature unchanged: no step of the worker changes
\* the values or the types of its executables, domains and ports, and the
\* ports the result carries for the report are those of the signature.
C26_SignatureUnchanged ==
    [][/\ rmm' = rmm
       /\ worker_pc' = "returned" => worker_outcome'.rmm_ports = rmm.ports]_vars

\* the place of an operation in the sequence of the sub-queries
SubQueryRank(op) ==
    CASE op = "get_activities_from_source_processes" -> 1
      [] op = "get_activities_to_destination_processes" -> 2
      [] op = "get_activities_to_domains" -> 3
      [] op = "get_activities_to_destination_ports" -> 4

\* execute_hunt was called without to_timestamp
ToTimestampDefaulted == \E now_ms \in ClockReadings :
                            timestamps.to_timestamp = DecimalString(str_digits(now_ms))

\* C39: when execute_hunt is called without to_timestamp, no worker fails
\* because of the defaulted value, and a worker that issued a sub-query
\* issued it with the current time as the end of the window.
C39_DefaultedEndOfWindow ==
    ToTimestampDefaulted =>
        /\ ~(worker_pc = "raised" /\ worker_outcome.type = "ValueError")
        /\ worker_queries # <<>> =>
               /\ ~parse_kwargs_for_params_raises(timestamps)
               /\ parse_kwargs_for_params(timestamps).has_to
               /\ parse_kwargs_for_params(timestamps).to
                      = digits_value(timestamps.to_timestamp.digits)

\* C30: within the worker of a signature the sub-queries are issued one
\* after the other in the order source process, destination process,
\* domain, port: a step issues at most one sub-query, later in that order
\* than every sub-query issued before, and once a sub-query has raised no
\* sub-query is issued any more.
C30_SubQueriesInOrder ==
    [][/\ worker_outcome.kind = "raise" => worker_queries' = worker_queries
       /\ worker_queries' # worker_queries =>
            /\ Len(worker_queries') = Len(worker_queries) + 1
            /\ \A k \in 1..Len(worker_queries) :
                 /\ worker_queries'[k] = worker_queries[k]
                 /\ SubQueryRank(worker_queries[k].op)
                        < SubQueryRank(worker_queries'[Len(worker_queries')].op)]_vars

\* the four sub-queries of a signature were issued and the worker returned
C30_Witness ==
    /\ worker_pc = "returned"
    /\ Len(worker_queries) = 4
    /\ \A k \in 1..4 : SubQueryRank(worker_queries[k].op) = k

\* a worker whose third sub-query raised, after two that returned
C30_RaiseReached ==
    /\ worker_pc = "raised"
    /\ Len(worker_queries) = 3
    /\ worker_outcome.type = "ZeroNetworksAPIError"

(***************************************************************************)
(* Properties of the preparation of the report                             *)
(***************************************************************************)
\* the worker of the signature returned, with a match in some category
HasMatches(sig) ==
    /\ hunt_outcomes[sig].kind = "return"
    /\ \/ hunt_outcomes[sig].executable # <<>>
       \/ hunt_outcomes[sig].domain # <<>>
       \/ hunt_outcomes[sig].port # <<>>

InReport(sig) == \E k \in 1..Len(rmmls) : rmmls[k].rmm_id = sig

\* C19: the final report contains a signature exactly when its worker
\* succeeded and one of its three result lists is not empty, and every
\* activity of the flattened list belongs to such a signature.
C19_ReportHasSignaturesWithMatches ==
    prep_pc = "done" =>
        /\ \A sig \in DOMAIN hunt_outcomes : InReport(sig) <=> HasMatches(sig)
        /\ \A k \in 1..Len(all_indicating_activities) :
               HasMatches(all_indicating_activities[k].rmml_id)

\* a hunt of two signatures whose workers both returned, one with matches
\* and one without: the report has the first only
C19_Witness ==
    /\ prep_pc = "done"
    /\ Len(hunt_results) = 2
    /\ \E sig \in DOMAIN hunt_outcomes : ~HasMatches(sig)
    /\ Len(rmmls) = 1
    /\ Len(all_indicating_activities) >= 1

\* C20: across a hunt at most one asset-resolution request is issued per
\* distinct source asset id: no id is requested twice.
C20_OneRequestPerAssetId ==
    \A i, j \in 1..Len(asset_requests) :
        asset_requests[i] = asset_requests[j] => i = j

\* the asset endpoint answers 404 for the id
Answers404(asset_id) == asset_answers[asset_id].status_code = 404

\* C21: when the asset endpoint answers 404 for an asset id, the resolution
\* gives the placeholder name "N/A", the enrichment goes on with the
\* remaining activities and the preparation does not fail on that id.
C21_NotFoundGivesPlaceholder ==
    /\ \A k \in 1..Len(src_asset_names) :
           Answers404(src_asset_names[k].id) => src_asset_names[k].name = "N/A"
    /\ prep_pc = "raised" => ~Answers404(asset_requests[Len(asset_requests)])

(***************************************************************************)
(* Properties of _parse_iso8601_to_timestamp_ms                            *)
(***************************************************************************)
\* the notations of a UTC instant: trailing Z, +00:00, no offset
UtcNotations == {"Z", "+00:00", ""}

\* the same date and time written with another suffix
written_with(ts, suffix) == [ts EXCEPT !.suffix = suffix]

\* C22: the same instant written with a trailing Z, with the offset +00:00
\* or with no offset parses to the identical epoch-millisecond value.
C22_UtcNotationsAgree ==
    (parse_pc = "returned" /\ iso8601_str.k = "iso"
                            /\ iso8601_str.suffix \in UtcNotations) =>
        \A suffix \in UtcNotations :
            /\ ~parse_iso8601_raises(written_with(iso8601_str, suffix))
            /\ parse_iso8601_to_timestamp_ms(written_with(iso8601_str, suffix))
                   = timestamp_ms

\* 1970-01-21T12:59:30 without offset parsed to 1774770000
C22_Witness ==
    /\ parse_pc = "returned"
    /\ iso8601_str = Iso8601(20, 12, 59, 30, "")
    /\ timestamp_ms = 1774770000

(***************************************************************************)
(* Properties of the metadata augmentation and of the enrichment           *)
(***************************************************************************)
\* C27: the augmentation leaves every entry the server declared present and
\* unchanged and only adds entries for field ids the server metadata lacks,
\* whether or not the static mapping file exists.
C27_AugmentationKeepsServerEntries ==
    enrich_pc \in {"ready", "done"} =>
        /\ \A k \in DOMAIN declared_filters :
               /\ k \in DOMAIN hunt_network_filters
               /\ hunt_network_filters[k] = declared_filters[k]
        /\ \A k \in DOMAIN hunt_network_filters :
               k \notin DOMAIN declared_filters => k \in DOMAIN mappings_file.items

\* the activity with every scalar, at any depth and in any list, replaced by
\* the name its key's selections give it, everything else as it was
RECURSIVE replaced_everywhere(_)
replaced_in_list(key, list) ==
    [k \in 1..Len(list) |->
        IF list[k].form = "scalar"
        THEN Scalar(map_id_value_to_human_readable(list[k].value, key))
        ELSE IF list[k].form = "dict" THEN replaced_everywhere(list[k])
        ELSE list[k]]
replaced_everywhere(dict) ==
    Dict([k \in 1..Len(dict.items) |->
        LET key == dict.items[k].value.s
            value == dict.items[k].items[1]
        IN  IF value.form = "scalar"
            THEN Field(key, Scalar(map_id_value_to_human_readable(value.value, key)))
            ELSE IF value.form = "list"
            THEN Field(key, List(replaced_in_list(key, value.items)))
            ELSE Field(key, replaced_everywhere(value))])

\* C28: after the enrichment every scalar of the activity, at any depth and
\* in any list, whose key (after the alias remapping) names a metadata field
\* whose selections contain the value's id is replaced by the selection's
\* name, and all other values and the order of list elements are unchanged.
C28_EveryIdReplacedInPlace ==
    enrich_pc = "done" => data = replaced_everywhere(raw_activity)

(***************************************************************************)
(* Properties of the hunt of one signature from its worker to the report   *)
(***************************************************************************)
\* the stage of the signature, read off the position of the code:
\* 1 PENDING           the worker has not built the filters (or failed in it)
\* 2 FILTERS_BUILT     the filters are built, the sub-queries are under way
\*                     (or one of them raised)
\* 3 QUERIES_ISSUED    the sub-queries are over, the result is not collected
\* 4 RESULTS_COLLECTED the hunt has appended the worker's result to results
\* 5 DEDUPLICATED      the unique activities map of the entry is built
\* 6 ENRICHED          every unique activity of the entry is decoded
\* 7 AGGREGATED        the activities of the entry are in the flattened list
Stage ==
    IF worker_pc = "start" THEN 1
    ELSE IF worker_pc = "raised" THEN (IF DOMAIN filter_holder = {} THEN 1 ELSE 2)
    ELSE IF worker_pc \in {"src", "dst", "domains", "ports"} THEN 2
    ELSE IF worker_pc = "collect" \/ prep_pc = "idle" THEN 3
    ELSE IF prep_pc \in {"start", "dedup"} \/ rmmls = <<>> THEN 4
    ELSE IF prep_pc \in {"decode", "raised"} THEN 5
    ELSE IF prep_pc = "aggregate" THEN 6
    ELSE 7

\* the worker returned without any activity
NoMatch == worker_pc = "returned" /\ \A f \in HuntFields : found[f] = 0

\* C29: a signature passes through the stages PENDING, FILTERS_BUILT,
\* QUERIES_ISSUED, RESULTS_COLLECTED, DEDUPLICATED, ENRICHED, AGGREGATED in
\* that order only, one stage at a time and never back; a signature whose
\* worker failed or that has no match never reaches AGGREGATED.
C29_StagesInOrder ==
    /\ [][Stage' = Stage \/ Stage' = Stage + 1]_vars
    /\ []((worker_pc = "raised" \/ NoMatch) => Stage < 7)

\* a signature with a domain match reached AGGREGATED
C29_Witness ==
    /\ Stage = 7
    /\ found["dstAsset"] = 1
    /\ Len(all_indicating_activities) = 1

(***************************************************************************)
(* Properties of execute_hunt: the pool and the preparation                *)
(***************************************************************************)
\* a worker that is queued or running
UnfinishedWorkers == {r \in Signatures : future[r].state \in {"pending", "running"}}

\* C32: the post-processing starts only after the pool has drained: while a
\* step of the filtering, deduplication, asset resolution or aggregation is
\* under way or done, no worker is queued or running.
C32_PreparationAfterPoolDrained ==
    prep_pc # "idle" => /\ UnfinishedWorkers = {}
                        /\ submitted = rmm_count

\* the asset of a match was requested after three workers had finished
C32_Witness ==
    /\ rmm_count = 3
    /\ Len(asset_requests) >= 1
    /\ prep_pc = "done"
    /\ Len(logged_failures) = 1

(***************************************************************************)
(* Properties of concurrent asset resolutions                              *)
(***************************************************************************)
\* the server answers the lookup of the id with the asset
ServerReportsName(asset_id) == asset_lookup(asset_id).kind = "return"

\* C33: under any interleaving of concurrent resolutions, a resolution of an
\* id the server reports a name for returns that name, the cache maps an id
\* only to the name the server reports for it, and the callers send at most
\* one lookup each.
C33_ResolutionsAgreeWithServer ==
    /\ \A t \in Resolvers :
           (resolutions[t].pc = "returned" /\ ServerReportsName(resolutions[t].asset_id))
               => resolutions[t].returned = asset_name(resolutions[t].asset_id)
    /\ \A e \in asset_id_to_asset_name_map :
           ServerReportsName(e.id) /\ e.name = asset_name(e.id)
    /\ Len(asset_requests) <= MaxResolvers

\* a race: two resolutions of one id both missed the cache, both requested
\* the asset, both returned
C33_Witness ==
    /\ Len(asset_requests) = 2
    /\ asset_requests[1] = asset_requests[2]
    /\ asset_answers[asset_requests[1]].entity_name = "str"
    /\ \A t \in Resolvers : resolutions[t].pc = "returned"
                             /\ resolutions[t].returned = asset_name(asset_requests[1])

====
